---- MODULE Spec2Model ----
(***************************************************************************)
(* A model of au-revoir-gitlab: the migration of every repository of a     *)
(* GitLab namespace into a GitHub organisation.                            *)
(*                                                                         *)
(* Strings of the program are sequences of one-character strings, so that  *)
(* sanitising, splitting, joining and formatting are computed character by *)
(* character as the code computes them.                                    *)
(***************************************************************************)
EXTENDS Integers, Sequences, FiniteSets, TLC

VARIABLES
    \* ---- name functions (utils.py) applied to drawn inputs
    nmPc,        \* "san" | "san1" | "san2" | "map" | "mapped"
    nmIn,        \* the string given to sanitize_repo_name
    nmOut,       \* sanitize_repo_name(nmIn)
    nmTwice,     \* sanitize_repo_name(nmOut)
    nmArgs,      \* [path, root, prefix, sep] given to map_gitlab_to_github_name
    nmMapped     \* its result

VARIABLES
    \* ---- GitHubTarget._get_github_url (github_target.py) applied to drawn configurations
    urlPc,       \* "url" | "url_done"
    api_url,     \* Config.github.api_url, as given to the program
    push_method, \* GitHubTargetConfig.push_method: "https" | "ssh"
    org_name,    \* GitHubTargetConfig.org_name
    repo_name,   \* the validated name given to _get_github_url
    github_url   \* its result

urlVars == <<urlPc, api_url, push_method, org_name, repo_name, github_url>>

VARIABLES
    \* ---- _clone_from_gitlab and _push_to_github (github_target.py) and their credential helper
    hPc,            \* "create" | "git" | "finally" | "returned" | "raised"
    hStep,          \* "clone" | "push": the call in progress
    clone_token,    \* source_url.startswith("https://") and gl_token
    push_https,     \* self.config.push_method == CloneMethod.HTTPS
    askpass_script, \* the local variable askpass_script of the call, NoScript for None
    helper_files,   \* the credential-helper files that exist
    created,        \* the credential-helper files created so far
    removals,       \* the credential-helper files whose removal was attempted
    git_outcome     \* how subprocess.run ended in the call in progress

helperVars == <<hPc, hStep, clone_token, push_https, askpass_script, helper_files, created,
                removals, git_outcome>>

nameVars == <<nmPc, nmIn, nmOut, nmTwice, nmArgs, nmMapped, urlVars, helperVars>>

VARIABLES
    \* ---- one run of the orchestrator (sync_orchestrator.py)
    cfg,         \* the Config of the run
    gitlab,      \* the GitLab namespace: root projects, subgroup listing, projects per group
    repos,       \* the names of the repositories of the GitHub organisation
    pc,          \* the position of run()
    calls,       \* the calls issued to the two platforms, git and the limiters, in order
    result,      \* what run() returned, NoResult while it runs
    to_visit,    \* list_projects: the listing of descendant subgroups
    visited,     \* list_projects: the subgroup ids seen so far
    projects,    \* list_projects: the projects collected; then the list run() plans
    used,        \* _plan_names: the names planned so far
    plan,        \* _plan_names: the (project, name) pairs planned so far
    cache,       \* SyncOrchestrator._repo_exists_cache: name -> BOOLEAN
    idx,         \* run(): the position in the plan of the project being processed
    exists,      \* _process_single_project: its local variable exists
    attempt,     \* wait_repo_available: the requests issued so far
    clone_dir,   \* start_import: its local variable clone_dir, NoDir for None
    steps,       \* start_import: the steps of the invocation in progress (or the last one)
    pending,     \* start_import: the exit code raised inside the try block, NoResult if none
    r_org,       \* _check_org_visibility: the answer to its request, while connect runs
    r_mem,       \* _check_org_membership: the answer to its request, while connect runs
    cleanup,     \* _cleanup_temp_dir: what the call of the invocation in progress did
    temp_dirs    \* the staging directories under clone_temp_dir, each named by its project

runVars == <<cfg, gitlab, repos, pc, calls, result, to_visit, visited, projects, used, plan,
             cache, idx, exists, attempt, clone_dir, steps, pending, r_org, r_mem, cleanup,
             temp_dirs>>

VARIABLES
    \* ---- one RateLimiter (utils.py) shared by the threads that call wait_if_needed
    max_requests,  \* RateLimiter.max_requests
    requests,      \* RateLimiter.requests: the timestamps recorded, in the order of recording
    lock,          \* RateLimiter.lock: the thread that holds it, NoThread if free
    now,           \* the clock: what time.time() returns, in seconds
    rlPc,          \* per thread, its position in wait_if_needed
    current_time,  \* per thread, the local variable current_time of wait_if_needed
    wake,          \* per thread, the time at which its time.sleep(wait_time) may return
    admitted       \* the real times at which wait_if_needed returned, in order

limiterVars == <<max_requests, requests, lock, now, rlPc, current_time, wake, admitted>>

vars == <<nameVars, runVars, limiterVars>>

-----------------------------------------------------------------------------
(* Characters and strings                                                  *)

LowerSeq == <<"a","b","c","d","e","f","g","h","i","j","k","l","m",
              "n","o","p","q","r","s","t","u","v","w","x","y","z">>

UpperSeq == <<"A","B","C","D","E","F","G","H","I","J","K","L","M",
              "N","O","P","Q","R","S","T","U","V","W","X","Y","Z">>

DigitSeq == <<"0","1","2","3","4","5","6","7","8","9">>

Range(f) == {f[i] : i \in DOMAIN f}

\* The character class [A-Za-z0-9._-] of the two regular expressions.
SafeChars == Range(LowerSeq) \cup Range(UpperSeq) \cup Range(DigitSeq) \cup {".", "_", "-"}

\* str.lower() on one character, then on a string.
LowerChar(c) ==
    IF c \in Range(UpperSeq)
    THEN LowerSeq[CHOOSE i \in DOMAIN UpperSeq : UpperSeq[i] = c]
    ELSE c

Lower(s) == [i \in DOMAIN s |-> LowerChar(s[i])]

\* str(n) for a natural number n: its decimal digits.
RECURSIVE IntToStr(_)
IntToStr(n) ==
    IF n < 10 THEN <<DigitSeq[n + 1]>>
    ELSE IntToStr(n \div 10) \o <<DigitSeq[(n % 10) + 1]>>

\* All strings over alphabet A of length at most n.
StringsUpTo(A, n) == UNION {[1..k -> A] : k \in 0..n}

-----------------------------------------------------------------------------
(* utils.py: sanitize_repo_name                                            *)

\* s without its longest prefix of characters of the set chars.
RECURSIVE DropWhile(_, _)
DropWhile(s, chars) ==
    IF s # <<>> /\ Head(s) \in chars THEN DropWhile(Tail(s), chars) ELSE s

\* s without its longest prefix of characters outside the safe class.
RECURSIVE DropUnsafe(_)
DropUnsafe(s) ==
    IF s # <<>> /\ Head(s) \notin SafeChars THEN DropUnsafe(Tail(s)) ELSE s

\* re.sub(r"[^A-Za-z0-9._-]+", "-", name): every maximal run of characters
\* outside the safe class becomes one dash.
RECURSIVE SubUnsafeRuns(_)
SubUnsafeRuns(s) ==
    IF s = <<>> THEN <<>>
    ELSE IF Head(s) \notin SafeChars
         THEN <<"-">> \o SubUnsafeRuns(DropUnsafe(Tail(s)))
         ELSE <<Head(s)>> \o SubUnsafeRuns(Tail(s))

\* re.sub(r"-+", "-", name): every maximal run of dashes becomes one dash.
RECURSIVE SubDashRuns(_)
SubDashRuns(s) ==
    IF s = <<>> THEN <<>>
    ELSE IF Head(s) = "-"
         THEN <<"-">> \o SubDashRuns(DropWhile(Tail(s), {"-"}))
         ELSE <<Head(s)>> \o SubDashRuns(Tail(s))

Reverse(s) == [i \in DOMAIN s |-> s[Len(s) + 1 - i]]

\* str.strip(chars): leading and trailing characters of the set removed.
Strip(s, chars) == Reverse(DropWhile(Reverse(DropWhile(s, chars)), chars))

DefaultName == <<"r", "e", "p", "o">>

\* sanitize_repo_name with the trimming done before the substitutions.
sanitize_strip_first(name) ==
    LET n1 == SubUnsafeRuns(Strip(name, {"-", "."}))
        n2 == SubDashRuns(n1)
    IN  IF n2 = <<>> THEN DefaultName ELSE n2

sanitize_repo_name(name) ==
    LET n1 == SubUnsafeRuns(name)
        n2 == Strip(SubDashRuns(n1), {"-", "."})
    IN  IF n2 = <<>> THEN DefaultName ELSE n2

-----------------------------------------------------------------------------
(* utils.py: map_gitlab_to_github_name                                     *)

\* The pieces of s between occurrences of the character c (str.split(c)).
RECURSIVE Split(_, _)
Split(s, c) ==
    IF \A i \in DOMAIN s : s[i] # c THEN <<s>>
    ELSE LET k == CHOOSE i \in DOMAIN s : s[i] = c /\ \A j \in 1..(i - 1) : s[j] # c
         IN  <<SubSeq(s, 1, k - 1)>> \o Split(SubSeq(s, k + 1, Len(s)), c)

\* sep.join(parts)
RECURSIVE Join(_, _)
Join(parts, sep) ==
    IF parts = <<>> THEN <<>>
    ELSE IF Len(parts) = 1 THEN parts[1]
    ELSE parts[1] \o sep \o Join(Tail(parts), sep)

\* s.replace(c, sep) for a character c
RECURSIVE Replace(_, _, _)
Replace(s, c, sep) ==
    IF s = <<>> THEN <<>>
    ELSE (IF Head(s) = c THEN sep ELSE <<Head(s)>>) \o Replace(Tail(s), c, sep)

\* [p for p in path_with_namespace.split("/") if p]
PathParts(path) == SelectSeq(Split(path, "/"), LAMBDA p : p # <<>>)

\* The candidate map_gitlab_to_github_name builds, before it is sanitised.
map_candidate(path_with_namespace, root_namespace, prefix, sep) ==
    LET split == PathParts(path_with_namespace)
        parts == IF split # <<>> /\ Lower(split[1]) = Lower(root_namespace)
                 THEN Tail(split) ELSE split
        joined == IF parts # <<>> THEN Join(parts, sep)
                  ELSE Replace(path_with_namespace, "/", sep)
    IN  IF prefix # <<>> THEN prefix \o sep \o joined ELSE joined

\* map_gitlab_to_github_name comparing the first segment case-sensitively.
map_case_sensitive(path_with_namespace, root_namespace, prefix, sep) ==
    LET split == PathParts(path_with_namespace)
        parts == IF split # <<>> /\ split[1] = root_namespace
                 THEN Tail(split) ELSE split
        joined == IF parts # <<>> THEN Join(parts, sep)
                  ELSE Replace(path_with_namespace, "/", sep)
        candidate == IF prefix # <<>> THEN prefix \o sep \o joined ELSE joined
    IN  sanitize_repo_name(candidate)

\* A prefix of None and a prefix of "" take the same branch (`if prefix`):
\* both are the empty string here.
map_gitlab_to_github_name(path_with_namespace, root_namespace, prefix, sep) ==
    LET split == PathParts(path_with_namespace)
        parts == IF split # <<>> /\ Lower(split[1]) = Lower(root_namespace)
                 THEN Tail(split) ELSE split
        joined == IF parts # <<>> THEN Join(parts, sep)
                  ELSE Replace(path_with_namespace, "/", sep)
        candidate == IF prefix # <<>> THEN prefix \o sep \o joined ELSE joined
    IN  sanitize_repo_name(candidate)

-----------------------------------------------------------------------------
(* Exit codes, calls and the end of run()                                  *)

EXIT_SUCCESS == 0
EXIT_EXECUTION_ERROR == 1
EXIT_GITLAB_ERROR == 30
EXIT_GITHUB_ERROR == 31
EXIT_AUTH_ERROR == 40

\* The value of result while run() has not returned: no exit code.
NoResult == EXIT_SUCCESS - 1
NoDir == "None"

\* One call of the platforms: the operation and what it is about.
Call(op, name) == [op |-> op, name |-> name]

\* RateLimiter.wait_if_needed returning on the limiter of a platform.
Admit(platform) == Call("wait_if_needed", platform)

\* The first k calls of a sequence of calls, the k-th being the one that raised.
Prefixes(cs) == {SubSeq(cs, 1, k) : k \in 1..Len(cs)}

\* The calls that are requests to GitLab or GitHub (an admission is not).
PlatformCalls(cs) == SelectSeq(cs, LAMBDA c : c.op # "wait_if_needed")

-----------------------------------------------------------------------------
(* gitlab_source.py: connect and list_projects                             *)

\* s contains sub (Python's `sub in s`).
Contains(s, sub) ==
    \E i \in 0..(Len(s) - Len(sub)) : SubSeq(s, i + 1, i + Len(sub)) = sub

\* The filters without the test on `archived`.
KeepProjectArchivedToo(project) ==
    ~(cfg.exclude # <<>> /\ Contains(project.path_with_namespace, cfg.exclude))

\* The filters list_projects applies to every project it lists.
KeepProject(project) ==
    /\ ~(~cfg.include_archived /\ ("archived" \in DOMAIN project /\ project.archived))
    /\ ~(cfg.exclude # <<>> /\ Contains(project.path_with_namespace, cfg.exclude))

\* A connection to GitLab followed at once by the discovery.
ConnectGitLabThenList ==
    /\ pc = "connect_gl"
    /\ calls' = Append(calls, Call("gl.auth", "gitlab"))
    /\ \E outcome \in {"ok", "auth_error", "error"} :
          IF outcome = "ok" THEN pc' = "list" /\ result' = result
          ELSE /\ pc' = "done"
               /\ result' = IF outcome = "auth_error" THEN EXIT_AUTH_ERROR
                                                       ELSE EXIT_GITLAB_ERROR
    /\ UNCHANGED <<cfg, gitlab, repos, to_visit, visited, projects, used, plan, cache, idx,
                   exists, attempt, clone_dir, steps, pending, r_org, r_mem, cleanup, temp_dirs, nameVars, limiterVars>>

\* GitLabSource.connect: gitlab.Gitlab(...) and api.auth().
ConnectGitLab ==
    /\ pc = "connect_gl"
    /\ calls' = Append(calls, Call("gl.auth", "gitlab"))
    /\ \E outcome \in {"ok", "auth_error", "error"} :
          IF outcome = "ok" THEN pc' = "connect_gh" /\ result' = result
          ELSE /\ pc' = "done"
               /\ result' = IF outcome = "auth_error" THEN EXIT_AUTH_ERROR
                                                       ELSE EXIT_GITLAB_ERROR
    /\ UNCHANGED <<cfg, gitlab, repos, to_visit, visited, projects, used, plan, cache, idx,
                   exists, attempt, clone_dir, steps, pending, r_org, r_mem, cleanup, temp_dirs, nameVars, limiterVars>>

\* list_projects up to the loop over the subgroups: the root group, its
\* projects (filtered) and the listing of its descendant subgroups.
ListRoot ==
    /\ pc = "list"
    /\ LET all == <<Admit("gitlab"), Call("gl.root_group.get", cfg.namespace),
                    Admit("gitlab"), Call("gl.root_group.projects", cfg.namespace)>>
                  \o (IF "subgroups" \in DOMAIN gitlab
                      THEN <<Call("gl.root_group.subgroups", cfg.namespace)>> ELSE <<>>)
       IN  \E outcome \in {"ok", "error"} :
              IF outcome = "ok"
              THEN /\ calls' = calls \o all
                   /\ projects' = SelectSeq(gitlab.root_projects, KeepProject)
                   /\ to_visit' = IF "subgroups" \in DOMAIN gitlab THEN gitlab.subgroups
                                                                   ELSE <<>>
                   /\ pc' = "list_subgroups"
                   /\ result' = result
              ELSE /\ \E cs \in {c \in Prefixes(all) : c[Len(c)].op # "wait_if_needed"} :
                         calls' = calls \o cs
                   /\ pc' = "done"
                   /\ result' = EXIT_GITLAB_ERROR
                   /\ UNCHANGED <<projects, to_visit>>
    /\ visited' = {}
    /\ UNCHANGED <<cfg, gitlab, repos, used, plan, cache, idx, exists, attempt, clone_dir,
                   steps, pending, r_org, r_mem, cleanup, temp_dirs, nameVars, limiterVars>>

\* The iteration without its test `subgroup_id in visited`.
ListVisitNoDedup ==
    /\ pc = "list_subgroups"
    /\ to_visit # <<>>
    /\ to_visit' = Tail(to_visit)
    /\ LET subgroup == Head(to_visit)
           has_id == "id" \in DOMAIN subgroup
       IN  IF ~has_id
           THEN UNCHANGED <<visited, projects, calls, pc, result>>
           ELSE /\ visited' = visited \cup {subgroup.id}
                /\ IF cfg.exclude # <<>> /\ Contains(subgroup.full_path, cfg.exclude)
                   THEN UNCHANGED <<projects, calls, pc, result>>
                   ELSE \E outcome \in {"ok", "error"} :
                          IF outcome = "ok"
                          THEN /\ calls' = calls \o <<Admit("gitlab"),
                                                      Call("gl.subgroup.get", subgroup.id),
                                                      Call("gl.subgroup.projects", subgroup.id)>>
                               /\ projects' = projects \o
                                      SelectSeq(gitlab.group_projects[subgroup.id], KeepProject)
                               /\ UNCHANGED <<pc, result>>
                          ELSE /\ \E cs \in Prefixes(<<Call("gl.subgroup.get", subgroup.id),
                                                       Call("gl.subgroup.projects", subgroup.id)>>) :
                                     calls' = calls \o <<Admit("gitlab")>> \o cs
                               /\ pc' = "done"
                               /\ result' = EXIT_GITLAB_ERROR
                               /\ UNCHANGED projects
    /\ UNCHANGED <<cfg, gitlab, repos, used, plan, cache, idx, exists, attempt, clone_dir,
                   steps, pending, r_org, r_mem, cleanup, temp_dirs, nameVars, limiterVars>>

\* One iteration of the loop over to_visit.
ListVisit ==
    /\ pc = "list_subgroups"
    /\ to_visit # <<>>
    /\ to_visit' = Tail(to_visit)
    /\ LET subgroup == Head(to_visit)
           has_id == "id" \in DOMAIN subgroup
       IN  IF ~has_id \/ subgroup.id \in visited
           THEN UNCHANGED <<visited, projects, calls, pc, result>>
           ELSE /\ visited' = visited \cup {subgroup.id}
                /\ IF cfg.exclude # <<>> /\ Contains(subgroup.full_path, cfg.exclude)
                   THEN UNCHANGED <<projects, calls, pc, result>>
                   ELSE \E outcome \in {"ok", "error"} :
                          IF outcome = "ok"
                          THEN /\ calls' = calls \o <<Admit("gitlab"),
                                                      Call("gl.subgroup.get", subgroup.id),
                                                      Call("gl.subgroup.projects", subgroup.id)>>
                               /\ projects' = projects \o
                                      SelectSeq(gitlab.group_projects[subgroup.id], KeepProject)
                               /\ UNCHANGED <<pc, result>>
                          ELSE /\ \E cs \in Prefixes(<<Call("gl.subgroup.get", subgroup.id),
                                                       Call("gl.subgroup.projects", subgroup.id)>>) :
                                     calls' = calls \o <<Admit("gitlab")>> \o cs
                               /\ pc' = "done"
                               /\ result' = EXIT_GITLAB_ERROR
                               /\ UNCHANGED projects
    /\ UNCHANGED <<cfg, gitlab, repos, used, plan, cache, idx, exists, attempt, clone_dir,
                   steps, pending, r_org, r_mem, cleanup, temp_dirs, nameVars, limiterVars>>

\* list_projects returns; run() calls _plan_names.
ListReturn ==
    /\ pc = "list_subgroups"
    /\ to_visit = <<>>
    /\ pc' = "plan"
    /\ UNCHANGED <<cfg, gitlab, repos, calls, result, to_visit, visited, projects, used, plan,
                   cache, idx, exists, attempt, clone_dir, steps, pending, r_org, r_mem, cleanup, temp_dirs, nameVars, limiterVars>>

-----------------------------------------------------------------------------
(* github_target.py: connect and its preflight                             *)

\* No request of the preflight has been answered.
NoAnswer == "none"

\* _check_org_visibility: the organisation lookup of the preflight.
GhCheckVisibility ==
    /\ pc = "connect_gh"
    /\ calls' = calls \o <<Admit("github"), Call("gh.get_org_rest", cfg.org)>>
    /\ \E status \in {"request_error", "200", "401", "403", "404", "500"} :
          /\ r_org' = status
          /\ IF status = "401" THEN pc' = "done" /\ result' = EXIT_AUTH_ERROR
             ELSE IF status \in {"request_error", "403", "404"}
                  THEN pc' = "done" /\ result' = EXIT_GITHUB_ERROR
                  ELSE pc' = "gh_membership" /\ result' = result
    /\ r_mem' = r_mem
    /\ UNCHANGED <<cfg, gitlab, repos, to_visit, visited, projects, used, plan, cache, idx,
                   exists, attempt, clone_dir, steps, pending, cleanup, temp_dirs, nameVars, limiterVars>>

\* _check_org_membership and _handle_membership_success/_error.
GhCheckMembership ==
    /\ pc = "gh_membership"
    /\ calls' = calls \o <<Admit("github"), Call("gh.get_membership", cfg.org)>>
    /\ \E answer \in {"request_error", "401", "403", "404", "500",
                      "active_admin", "active_member", "pending"} :
          /\ r_mem' = answer
          /\ IF answer = "pending"
             THEN pc' = "done" /\ result' = EXIT_GITHUB_ERROR
             ELSE pc' = "gh_org" /\ result' = result
    /\ r_org' = r_org
    /\ UNCHANGED <<cfg, gitlab, repos, to_visit, visited, projects, used, plan, cache, idx,
                   exists, attempt, clone_dir, steps, pending, cleanup, temp_dirs, nameVars, limiterVars>>

\* self.org = self.api.get_organization(...), the end of connect.
GhGetOrg ==
    /\ pc = "gh_org"
    /\ calls' = Append(calls, Call("gh.get_organization", cfg.org))
    /\ r_org' = NoAnswer
    /\ r_mem' = NoAnswer
    /\ \E outcome \in {"ok", "bad_credentials", "github_error", "error"} :
          IF outcome = "ok" THEN pc' = "list" /\ result' = result
          ELSE /\ pc' = "done"
               /\ result' = IF outcome = "bad_credentials" THEN EXIT_AUTH_ERROR
                                                            ELSE EXIT_GITHUB_ERROR
    /\ UNCHANGED <<cfg, gitlab, repos, to_visit, visited, projects, used, plan, cache, idx,
                   exists, attempt, clone_dir, steps, pending, cleanup, temp_dirs, nameVars, limiterVars>>

-----------------------------------------------------------------------------
(* sync_orchestrator.py: _repo_exists and _plan_names                      *)

Str_gl == <<"_", "g", "l">>
Str_dup == <<"_", "d", "u", "p">>

\* _repo_exists asking the registry every time.
RepoExistsUncached(name, c, reg, queries) ==
    [val |-> name \in reg,
     cache |-> (name :> (name \in reg)) @@ c,
     queries |-> Append(queries, name)]

\* _repo_exists(name) when the registry answers: the cached answer, or the
\* registry's answer, which is then cached.  queries are the names the
\* registry was asked about.
_repo_exists(name, c, reg, queries) ==
    IF name \in DOMAIN c
    THEN [val |-> c[name], cache |-> c, queries |-> queries]
    ELSE [val |-> name \in reg,
          cache |-> c @@ (name :> (name \in reg)),
          queries |-> Append(queries, name)]

\* The suffix that ignores the project's id.
IdSuffixAlwaysDup(project) == Str_dup

\* f"_gl{pid}" if pid is not None else "_dup", pid = getattr(project, "id", None)
IdSuffix(project) ==
    IF "id" \in DOMAIN project THEN Str_gl \o IntToStr(project.id) ELSE Str_dup

\* The while loop without its test `cand in used`.
RECURSIVE CandidateLoopRegistryOnly(_, _, _, _, _, _, _, _)
CandidateLoopRegistryOnly(base, suffix, cand, counter, usedNames, c, reg, queries) ==
    LET e == _repo_exists(cand, c, reg, queries)
    IN  IF e.val /\ ~cfg.force_reimport
        THEN CandidateLoopRegistryOnly(base, suffix,
                 sanitize_repo_name(base \o suffix \o <<"_">> \o IntToStr(counter)),
                 counter + 1, usedNames, e.cache, reg, e.queries)
        ELSE [name |-> cand, cache |-> e.cache, queries |-> e.queries]

\* The while loop with a counter that goes up by two.
RECURSIVE CandidateLoopByTwo(_, _, _, _, _, _, _, _)
CandidateLoopByTwo(base, suffix, cand, counter, usedNames, c, reg, queries) ==
    LET next(c2, q2) ==
            CandidateLoopByTwo(base, suffix,
                               sanitize_repo_name(base \o suffix \o <<"_">> \o IntToStr(counter)),
                               counter + 2, usedNames, c2, reg, q2)
    IN  IF cand \in usedNames THEN next(c, queries)
        ELSE LET e == _repo_exists(cand, c, reg, queries)
             IN  IF e.val /\ ~cfg.force_reimport
                 THEN next(e.cache, e.queries)
                 ELSE [name |-> cand, cache |-> e.cache, queries |-> e.queries]

\* The while loop of _plan_names from candidate cand and counter on: the
\* first candidate that is neither used nor (unless force_reimport) existing.
RECURSIVE CandidateLoop(_, _, _, _, _, _, _, _)
CandidateLoop(base, suffix, cand, counter, usedNames, c, reg, queries) ==
    LET next(c2, q2) ==
            CandidateLoop(base, suffix,
                          sanitize_repo_name(base \o suffix \o <<"_">> \o IntToStr(counter)),
                          counter + 1, usedNames, c2, reg, q2)
    IN  IF cand \in usedNames THEN next(c, queries)
        ELSE LET e == _repo_exists(cand, c, reg, queries)
             IN  IF e.val /\ ~cfg.force_reimport
                 THEN next(e.cache, e.queries)
                 ELSE [name |-> cand, cache |-> e.cache, queries |-> e.queries]

\* One iteration of the for loop that asks the registry about its first name
\* and keeps the name whatever the answer.
PlanOneUsedOnly(project, usedNames, c, reg) ==
    LET base == map_gitlab_to_github_name(project.path_with_namespace, cfg.namespace,
                                          cfg.name_prefix, cfg.flatten_sep)
        suffix == IdSuffix(project)
        name == IF base \in usedNames THEN sanitize_repo_name(base \o suffix) ELSE base
        e == IF name \in usedNames
             THEN [val |-> TRUE, cache |-> c, queries |-> <<>>]
             ELSE _repo_exists(name, c, reg, <<>>)
    IN  IF name \in usedNames
        THEN CandidateLoop(base, suffix, sanitize_repo_name(base \o suffix), 2,
                           usedNames, e.cache, reg, e.queries)
        ELSE [name |-> name, cache |-> e.cache, queries |-> e.queries]

\* One iteration of the for loop of _plan_names: the name given to project,
\* with the cache and the registry queries it leaves behind.
PlanOne(project, usedNames, c, reg) ==
    LET base == map_gitlab_to_github_name(project.path_with_namespace, cfg.namespace,
                                          cfg.name_prefix, cfg.flatten_sep)
        suffix == IdSuffix(project)
        name == IF base \in usedNames THEN sanitize_repo_name(base \o suffix) ELSE base
        e == IF name \in usedNames
             THEN [val |-> TRUE, cache |-> c, queries |-> <<>>]
             ELSE _repo_exists(name, c, reg, <<>>)
        conflict == name \in usedNames \/ (e.val /\ ~cfg.force_reimport)
    IN  IF conflict
        THEN CandidateLoop(base, suffix, sanitize_repo_name(base \o suffix), 2,
                           usedNames, e.cache, reg, e.queries)
        ELSE [name |-> name, cache |-> e.cache, queries |-> e.queries]

\* GitHubTarget.repo_exists for each of a sequence of names: an admission
\* and the lookup.
RECURSIVE QueryCalls(_)
QueryCalls(queries) ==
    IF queries = <<>> THEN <<>>
    ELSE <<Admit("github"), Call("gh.repo_exists", Head(queries))>> \o QueryCalls(Tail(queries))

\* self._repo_exists_cache[name] = value
CacheSet(c, name, value) == (name :> value) @@ c

\* The cache after the registry answered the queries qs.
RECURSIVE CacheAfter(_, _, _)
CacheAfter(c, qs, reg) ==
    IF qs = <<>> THEN c
    ELSE CacheAfter(CacheSet(c, Head(qs), Head(qs) \in reg), Tail(qs), reg)

\* _plan_names as a function of the list it is given, for the destination
\* as it is: the fold of PlanOne from the used names usedNames and the cache
\* c on, acc being the plan so far.
RECURSIVE PlanNames(_, _, _, _)
PlanNames(list, usedNames, c, acc) ==
    IF list = <<>> THEN acc
    ELSE LET r == PlanOne(Head(list), usedNames, c, repos)
         IN  PlanNames(Tail(list), usedNames \cup {r.name}, r.cache,
                       Append(acc, [project |-> Head(list), name |-> r.name]))

\* The iteration that does not add the name to used.
PlanStepWithoutUsed ==
    /\ pc = "plan"
    /\ Len(plan) < Len(projects)
    /\ LET project == projects[Len(plan) + 1]
           r == PlanOne(project, used, cache, repos)
       IN  \E raised \in 0..Len(r.queries) :
              IF raised = 0
              THEN /\ used' = used
                   /\ plan' = Append(plan, [project |-> project, name |-> r.name])
                   /\ cache' = r.cache
                   /\ calls' = calls \o QueryCalls(r.queries)
                   /\ UNCHANGED <<pc, result>>
              ELSE /\ cache' = CacheAfter(cache, SubSeq(r.queries, 1, raised - 1), repos)
                   /\ calls' = calls \o QueryCalls(SubSeq(r.queries, 1, raised))
                   /\ pc' = "done"
                   /\ result' = EXIT_EXECUTION_ERROR
                   /\ UNCHANGED <<used, plan>>
    /\ UNCHANGED <<cfg, gitlab, repos, to_visit, visited, projects, idx,
                   exists, attempt, clone_dir, steps, pending, r_org, r_mem, cleanup, temp_dirs, nameVars, limiterVars>>

\* One iteration of the for loop of _plan_names.  A registry lookup that
\* raises anything but a 404 ends _plan_names and run() with it.
PlanStep ==
    /\ pc = "plan"
    /\ Len(plan) < Len(projects)
    /\ LET project == projects[Len(plan) + 1]
           r == PlanOne(project, used, cache, repos)
       IN  \E raised \in 0..Len(r.queries) :
              IF raised = 0
              THEN /\ used' = used \cup {r.name}
                   /\ plan' = Append(plan, [project |-> project, name |-> r.name])
                   /\ cache' = r.cache
                   /\ calls' = calls \o QueryCalls(r.queries)
                   /\ UNCHANGED <<pc, result>>
              ELSE /\ cache' = CacheAfter(cache, SubSeq(r.queries, 1, raised - 1), repos)
                   /\ calls' = calls \o QueryCalls(SubSeq(r.queries, 1, raised))
                   /\ pc' = "done"
                   /\ result' = EXIT_EXECUTION_ERROR
                   /\ UNCHANGED <<used, plan>>
    /\ UNCHANGED <<cfg, gitlab, repos, to_visit, visited, projects, idx,
                   exists, attempt, clone_dir, steps, pending, r_org, r_mem, cleanup, temp_dirs, nameVars, limiterVars>>

-----------------------------------------------------------------------------
(* sync_orchestrator.py: run() after planning, _process_single_project     *)

\* _plan_names has gone through the projects and returns its plan.
PlanReturned == pc = "plan" /\ Len(plan) = Len(projects)

\* The dry-run branch of run(): the plan is logged and run() returns.
DryRun ==
    /\ PlanReturned
    /\ cfg.dry_run
    /\ pc' = "done"
    /\ result' = EXIT_SUCCESS
    /\ UNCHANGED <<cfg, gitlab, repos, calls, to_visit, visited, projects, used, plan,
                   cache, idx, exists, attempt, clone_dir, steps, pending, r_org, r_mem, cleanup, temp_dirs, nameVars, limiterVars>>

\* The loop of run() going through the plan from its end.
NextProjectReversed ==
    IF idx = 0 /\ Len(plan) > 0
    THEN idx' = Len(plan) /\ pc' = "exists" /\ result' = result
    ELSE IF idx > 1
         THEN idx' = idx - 1 /\ pc' = "exists" /\ result' = result
         ELSE idx' = idx /\ pc' = "done" /\ result' = EXIT_SUCCESS

\* The project after the idx-th, or the end of run().
NextProject ==
    IF idx < Len(plan)
    THEN idx' = idx + 1 /\ pc' = "exists" /\ result' = result
    ELSE idx' = idx /\ pc' = "done" /\ result' = EXIT_SUCCESS

\* run() entering its loop whether or not dry_run is set.
StartMigrationInDryRun ==
    /\ PlanReturned
    /\ idx = 0
    /\ NextProject
    /\ UNCHANGED <<cfg, gitlab, repos, calls, to_visit, visited, projects, used, plan,
                   cache, exists, attempt, clone_dir, steps, pending, r_org, r_mem, cleanup, temp_dirs, nameVars, limiterVars>>

\* run() enters its loop over the plan.
StartMigration ==
    /\ PlanReturned
    /\ ~cfg.dry_run
    /\ idx = 0
    /\ NextProject
    /\ UNCHANGED <<cfg, gitlab, repos, calls, to_visit, visited, projects, used, plan,
                   cache, exists, attempt, clone_dir, steps, pending, r_org, r_mem, cleanup, temp_dirs, nameVars, limiterVars>>

\* exists = self._repo_exists(gh_name)
CheckExists ==
    /\ pc = "exists"
    /\ LET name == plan[idx].name
           e == _repo_exists(name, cache, repos, <<>>)
       IN  \E raised \in 0..Len(e.queries) :
              IF raised = 0
              THEN /\ cache' = e.cache
                   /\ calls' = calls \o QueryCalls(e.queries)
                   /\ exists' = e.val
                   /\ pc' = IF e.val /\ cfg.force_reimport THEN "delete"
                            ELSE IF ~e.val THEN "create" ELSE "auth"
                   /\ result' = result
              ELSE /\ calls' = calls \o QueryCalls(e.queries)
                   /\ pc' = "done"
                   /\ result' = EXIT_EXECUTION_ERROR
                   /\ UNCHANGED <<cache, exists>>
    /\ UNCHANGED <<cfg, gitlab, repos, to_visit, visited, projects, used, plan, idx,
                   attempt, clone_dir, steps, pending, r_org, r_mem, cleanup, temp_dirs, nameVars, limiterVars>>

\* What a failed call of the GitHub client ends run() with: the wrappers turn
\* a GithubException into EXIT_GITHUB_ERROR, run() turns any other exception
\* into EXIT_EXECUTION_ERROR.
FailureCode(outcome) ==
    IF outcome = "github_error" THEN EXIT_GITHUB_ERROR ELSE EXIT_EXECUTION_ERROR

\* delete_repo without the assignment to the cache entry.
DeleteRepoStaleCache ==
    /\ pc = "delete"
    /\ LET name == plan[idx].name
           all == <<Admit("github"), Call("gh.get_repo", name),
                    Admit("github"), Call("delete_repo", name)>>
       IN  \E outcome \in {"ok", "github_error", "error"} :
              IF outcome = "ok"
              THEN /\ calls' = calls \o all
                   /\ repos' = repos \ {name}
                   /\ cache' = cache
                   /\ exists' = FALSE
                   /\ pc' = "create"
                   /\ result' = result
              ELSE /\ \E cs \in {c \in Prefixes(all) : c[Len(c)].op # "wait_if_needed"} :
                         calls' = calls \o cs
                   /\ pc' = "done"
                   /\ result' = FailureCode(outcome)
                   /\ UNCHANGED <<repos, cache, exists>>
    /\ UNCHANGED <<cfg, gitlab, to_visit, visited, projects, used, plan, idx,
                   attempt, clone_dir, steps, pending, r_org, r_mem, cleanup, temp_dirs, nameVars, limiterVars>>

\* delete_repo after which the repository is not created again.
DeleteRepoWithoutCreate ==
    /\ pc = "delete"
    /\ LET name == plan[idx].name
           all == <<Admit("github"), Call("gh.get_repo", name),
                    Admit("github"), Call("delete_repo", name)>>
       IN  \E outcome \in {"ok", "github_error", "error"} :
              IF outcome = "ok"
              THEN /\ calls' = calls \o all
                   /\ repos' = repos \ {name}
                   /\ cache' = CacheSet(cache, name, FALSE)
                   /\ exists' = FALSE
                   /\ pc' = "auth"
                   /\ result' = result
              ELSE /\ \E cs \in {c \in Prefixes(all) : c[Len(c)].op # "wait_if_needed"} :
                         calls' = calls \o cs
                   /\ pc' = "done"
                   /\ result' = FailureCode(outcome)
                   /\ UNCHANGED <<repos, cache, exists>>
    /\ UNCHANGED <<cfg, gitlab, to_visit, visited, projects, used, plan, idx,
                   attempt, clone_dir, steps, pending, r_org, r_mem, cleanup, temp_dirs, nameVars, limiterVars>>

\* self.gh.delete_repo(gh_name); the cache entry becomes False.
DeleteRepo ==
    /\ pc = "delete"
    /\ LET name == plan[idx].name
           all == <<Admit("github"), Call("gh.get_repo", name),
                    Admit("github"), Call("delete_repo", name)>>
       IN  \E outcome \in {"ok", "github_error", "error"} :
              IF outcome = "ok"
              THEN /\ calls' = calls \o all
                   /\ repos' = repos \ {name}
                   /\ cache' = CacheSet(cache, name, FALSE)
                   /\ exists' = FALSE
                   /\ pc' = "create"
                   /\ result' = result
              ELSE /\ \E cs \in {c \in Prefixes(all) : c[Len(c)].op # "wait_if_needed"} :
                         calls' = calls \o cs
                   /\ pc' = "done"
                   /\ result' = FailureCode(outcome)
                   /\ UNCHANGED <<repos, cache, exists>>
    /\ UNCHANGED <<cfg, gitlab, to_visit, visited, projects, used, plan, idx,
                   attempt, clone_dir, steps, pending, r_org, r_mem, cleanup, temp_dirs, nameVars, limiterVars>>

\* create_repo without the assignment to the cache entry.
CreateRepoStaleCache ==
    /\ pc = "create"
    /\ LET name == plan[idx].name
       IN  /\ calls' = calls \o <<Admit("github"), Call("create_repo", name)>>
           /\ \E outcome \in {"ok", "github_error", "error"} :
                 IF outcome = "ok"
                 THEN /\ repos' = repos \cup {name}
                      /\ cache' = cache
                      /\ pc' = "auth"
                      /\ result' = result
                 ELSE /\ pc' = "done"
                      /\ result' = FailureCode(outcome)
                      /\ UNCHANGED <<repos, cache>>
    /\ UNCHANGED <<cfg, gitlab, to_visit, visited, projects, used, plan, idx, exists,
                   attempt, clone_dir, steps, pending, r_org, r_mem, cleanup, temp_dirs, nameVars, limiterVars>>

\* self.gh.create_repo(gh_name, ...); the cache entry becomes True.
CreateRepo ==
    /\ pc = "create"
    /\ LET name == plan[idx].name
       IN  /\ calls' = calls \o <<Admit("github"), Call("create_repo", name)>>
           /\ \E outcome \in {"ok", "github_error", "error"} :
                 IF outcome = "ok"
                 THEN /\ repos' = repos \cup {name}
                      /\ cache' = CacheSet(cache, name, TRUE)
                      /\ pc' = "auth"
                      /\ result' = result
                 ELSE /\ pc' = "done"
                      /\ result' = FailureCode(outcome)
                      /\ UNCHANGED <<repos, cache>>
    /\ UNCHANGED <<cfg, gitlab, to_visit, visited, projects, used, plan, idx, exists,
                   attempt, clone_dir, steps, pending, r_org, r_mem, cleanup, temp_dirs, nameVars, limiterVars>>

\* The visibility read as public unless it is "private".
VisibilityOnlyPrivate(project) ==
    IF "visibility" \in DOMAIN project /\ project.visibility # "private"
    THEN "public" ELSE "private"

\* getattr(project, "visibility", "private")
VisibilityOf(project) ==
    IF "visibility" \in DOMAIN project THEN project.visibility ELSE "private"

\* The GitLab username check; then start_import is entered.
AuthCheck ==
    /\ pc = "auth"
    /\ IF /\ cfg.clone_method = "https"
          /\ VisibilityOf(plan[idx].project) # "public"
          /\ cfg.username = <<>>
       THEN /\ pc' = "done"
            /\ result' = EXIT_AUTH_ERROR
            /\ UNCHANGED <<steps, attempt, clone_dir, pending, cleanup>>
            /\ calls' = calls
       ELSE /\ pc' = "validate"
            /\ result' = result
            /\ calls' = Append(calls, Call("start_import", plan[idx].name))
            /\ steps' = <<>>
            /\ attempt' = 0
            /\ clone_dir' = NoDir
            /\ pending' = NoResult
            /\ cleanup' = <<>>
    /\ UNCHANGED <<cfg, gitlab, repos, to_visit, visited, projects, used, plan,
                   cache, idx, exists, r_org, r_mem, temp_dirs, nameVars, limiterVars>>

-----------------------------------------------------------------------------
(* security.py: validate_repo_name; github_target.py: start_import         *)

MAX_REPO_NAME_LENGTH == 100

ControlChars == {"\t", "\n", "\r", "\f"}

\* re.sub(r"[^A-Za-z0-9._-]", "-", name): every unsafe character becomes a dash.
SubUnsafeChars(s) == [i \in DOMAIN s |-> IF s[i] \in SafeChars THEN s[i] ELSE "-"]

\* SecurityValidator.validate_repo_name: ok is FALSE where it raises ValueError.
validate_repo_name(name) ==
    LET sanitized == Strip(SubDashRuns(SubUnsafeChars(name)), {"-", "."})
    IN  IF \/ name = <<>>
           \/ Len(name) > MAX_REPO_NAME_LENGTH
           \/ Contains(name, <<".", ".">>)
           \/ Contains(name, <<"/">>)
           \/ Contains(name, <<"\\">>)
           \/ \E i \in DOMAIN name : name[i] \in ControlChars
           \/ sanitized = <<>>
        THEN [ok |-> FALSE, name |-> name]
        ELSE [ok |-> TRUE, name |-> sanitized]

\* start_import called without the argument: the parameter's default.
wait_for_repo_default == TRUE

\* The argument run() passes: wait_for_repo=self.cfg.behavior.import_config.wait
wait_for_repo == cfg.wait

\* The name start_import works with once its inputs are validated.
ValidatedName == validate_repo_name(plan[idx].name).name

\* _validate_import_inputs: the name as validate_repo_name decides, the URL,
\* the username and the directory as the validator answers.
ValidateInputs ==
    /\ pc = "validate"
    /\ \E others_ok \in BOOLEAN :
          IF validate_repo_name(plan[idx].name).ok /\ others_ok
          THEN /\ steps' = Append(steps, IF wait_for_repo THEN "validated" ELSE "wait_skipped")
               /\ pc' = IF wait_for_repo THEN "wait" ELSE "staging"
               /\ result' = result
          ELSE /\ steps' = Append(steps, "validation_failed")
               /\ pc' = "done"
               /\ result' = EXIT_GITHUB_ERROR
    /\ UNCHANGED <<cfg, gitlab, repos, calls, to_visit, visited, projects, used, plan,
                   cache, idx, exists, attempt, clone_dir, pending, r_org, r_mem, cleanup, temp_dirs, nameVars, limiterVars>>

\* wait_repo_available(name, attempts=10)
WaitAttempts == 10

\* The loop running once more than attempts.
ExhaustedOneLate(requests_issued) == requests_issued > WaitAttempts

\* for i in range(1, attempts + 1): the loop is over after attempts requests.
Exhausted(requests_issued) == requests_issued >= WaitAttempts

\* One request of wait_repo_available (counted by attempt; the requests of
\* the polling are not entered in calls); after the last one without a 200
\* it returns False and start_import exits.
PollRepo ==
    /\ pc = "wait"
    /\ ~Exhausted(attempt)
    /\ attempt' = attempt + 1
    /\ \E status \in {"200", "404", "500", "request_error"} :
          IF status = "200"
          THEN /\ steps' = Append(steps, "available")
               /\ pc' = "staging"
               /\ result' = result
          ELSE IF ~Exhausted(attempt + 1)
               THEN UNCHANGED <<steps, pc, result>>
               ELSE /\ steps' = Append(steps, "not_available")
                    /\ pc' = "done"
                    /\ result' = EXIT_GITHUB_ERROR
    /\ UNCHANGED <<cfg, gitlab, repos, calls, to_visit, visited, projects, used, plan,
                   cache, idx, exists, clone_dir, pending, r_org, r_mem, cleanup, temp_dirs, nameVars, limiterVars>>

\* How _create_secure_temp_dir ends: it returns the directory made by
\* tempfile.mkdtemp; a statement before mkdtemp, or mkdtemp, raises; or a
\* statement after mkdtemp (os.chmod, Logger.info) raises.
StagingOutcomes == {"ok", "error", "error_after_mkdtemp"}

\* _create_secure_temp_dir inside the try block: clone_dir is assigned only
\* when it returns; an exception is handled with clone_dir still None,
\* whether or not mkdtemp had made the directory.
StagingDir ==
    /\ pc = "staging"
    /\ \E outcome \in StagingOutcomes :
          /\ temp_dirs' = IF outcome = "error" THEN temp_dirs ELSE temp_dirs \cup {idx}
          /\ IF outcome = "ok"
             THEN /\ clone_dir' = "dir"
                  /\ steps' = Append(steps, "staging_ok")
                  /\ pc' = "clone"
                  /\ pending' = pending
             ELSE /\ clone_dir' = NoDir
                  /\ steps' = Append(steps, "staging_failed")
                  /\ pc' = "finally"
                  /\ pending' = EXIT_GITHUB_ERROR
    /\ UNCHANGED <<cfg, gitlab, repos, calls, result, to_visit, visited, projects, used, plan,
                   cache, idx, exists, attempt, r_org, r_mem, cleanup, nameVars, limiterVars>>

\* How git clone or git push ends: exit status 0, CalledProcessError,
\* TimeoutExpired, or another exception.  Every handler of the try block
\* calls sys.exit(EXIT_GITHUB_ERROR), which the finally block precedes.
GitOutcomes == {"ok", "failed", "timeout", "error"}

\* A clone after which the push is attempted however the clone ended.
CloneThenPushAnyway ==
    /\ pc = "clone"
    /\ calls' = Append(calls, Call("git.clone", ValidatedName))
    /\ \E outcome \in GitOutcomes :
          /\ steps' = Append(steps, "clone_" \o outcome)
          /\ pending' = IF outcome = "ok" THEN pending ELSE EXIT_GITHUB_ERROR
    /\ pc' = "push"
    /\ UNCHANGED <<cfg, gitlab, repos, result, to_visit, visited, projects, used, plan,
                   cache, idx, exists, attempt, clone_dir, r_org, r_mem, cleanup, temp_dirs, nameVars, limiterVars>>

\* _clone_from_gitlab
CloneFromGitLab ==
    /\ pc = "clone"
    /\ calls' = Append(calls, Call("git.clone", ValidatedName))
    /\ \E outcome \in GitOutcomes :
          /\ steps' = Append(steps, "clone_" \o outcome)
          /\ IF outcome = "ok"
             THEN pc' = "push" /\ pending' = pending
             ELSE pc' = "finally" /\ pending' = EXIT_GITHUB_ERROR
    /\ UNCHANGED <<cfg, gitlab, repos, result, to_visit, visited, projects, used, plan,
                   cache, idx, exists, attempt, clone_dir, r_org, r_mem, cleanup, temp_dirs, nameVars, limiterVars>>

\* A push whose timeout is not an error.
PushTimeoutNotFatal ==
    /\ pc = "push"
    /\ calls' = Append(calls, Call("git.push", ValidatedName))
    /\ \E outcome \in GitOutcomes :
          /\ steps' = Append(steps, "push_" \o outcome)
          /\ pending' = IF outcome \in {"ok", "timeout"} THEN pending ELSE EXIT_GITHUB_ERROR
    /\ pc' = "finally"
    /\ UNCHANGED <<cfg, gitlab, repos, result, to_visit, visited, projects, used, plan,
                   cache, idx, exists, attempt, clone_dir, r_org, r_mem, cleanup, temp_dirs, nameVars, limiterVars>>

\* _push_to_github
PushToGitHub ==
    /\ pc = "push"
    /\ calls' = Append(calls, Call("git.push", ValidatedName))
    /\ \E outcome \in GitOutcomes :
          /\ steps' = Append(steps, "push_" \o outcome)
          /\ pending' = IF outcome = "ok" THEN pending ELSE EXIT_GITHUB_ERROR
    /\ pc' = "finally"
    /\ UNCHANGED <<cfg, gitlab, repos, result, to_visit, visited, projects, used, plan,
                   cache, idx, exists, attempt, clone_dir, r_org, r_mem, cleanup, temp_dirs, nameVars, limiterVars>>

\* Cleaning up only when nothing failed.
CleansUpOnSuccess == clone_dir # NoDir /\ pending = NoResult

\* Whether the finally block of start_import calls _cleanup_temp_dir.
CleansUp == clone_dir # NoDir

\* How the removal of the staging directory goes: the directory is gone
\* already, it is removed, the removal fails (os.chmod or shutil.rmtree
\* raises an OSError), or a statement of the try block raises an exception
\* that is no OSError.
CleanupOutcomes == {"absent", "removed", "os_error", "exception"}

\* _cleanup_temp_dir that lets the OSError of the removal through.
CleanupThatRaises(outcome) ==
    IF outcome = "absent" THEN [did |-> <<>>, raised |-> FALSE]
    ELSE IF outcome = "removed"
         THEN [did |-> <<"rmtree", "CLEANUP_SUCCESS">>, raised |-> FALSE]
    ELSE IF outcome = "os_error"
         THEN [did |-> <<"rmtree">>, raised |-> TRUE]
    ELSE [did |-> <<"rmtree", "CLEANUP_EXCEPTION", "warn">>, raised |-> FALSE]

\* _cleanup_temp_dir: what it does, and whether an exception leaves it.  An
\* OSError is followed by shutil.rmtree(clone_dir, ignore_errors=True),
\* whose own exceptions are passed over; any other exception is logged.
_cleanup_temp_dir(outcome) ==
    IF outcome = "absent" THEN [did |-> <<>>, raised |-> FALSE]
    ELSE IF outcome = "removed"
         THEN [did |-> <<"rmtree", "CLEANUP_SUCCESS">>, raised |-> FALSE]
    ELSE IF outcome = "os_error"
         THEN [did |-> <<"rmtree", "CLEANUP_FAILED", "force_rmtree", "warn">>,
               raised |-> FALSE]
    ELSE [did |-> <<"rmtree", "CLEANUP_EXCEPTION", "warn">>, raised |-> FALSE]

\* Whether the directory can be there after _cleanup_temp_dir: it is gone
\* when it was absent or removed; shutil.rmtree(ignore_errors=True) after an
\* OSError, and a try block left by another exception, may leave it.
Remains(outcome) == IF outcome \in {"absent", "removed"} THEN {FALSE} ELSE {FALSE, TRUE}

\* The finally block going on with the next project whatever is pending.
FinallyIgnoresPending ==
    /\ pc = "finally"
    /\ IF CleansUp
       THEN /\ steps' = Append(steps, "cleanup")
            /\ \E outcome \in CleanupOutcomes :
                  /\ cleanup' = _cleanup_temp_dir(outcome).did
                  /\ \E left \in Remains(outcome) :
                        temp_dirs' = IF left THEN temp_dirs ELSE temp_dirs \ {idx}
       ELSE UNCHANGED <<steps, cleanup, temp_dirs>>
    /\ NextProject
    /\ UNCHANGED <<cfg, gitlab, repos, calls, to_visit, visited, projects, used, plan,
                   cache, exists, attempt, clone_dir, pending, r_org, r_mem, nameVars, limiterVars>>

\* The finally block of start_import: _cleanup_temp_dir if clone_dir; then
\* the pending exit, or the return to run()'s loop.  An exception leaving
\* _cleanup_temp_dir would leave start_import and be caught by run().
Finally ==
    /\ pc = "finally"
    /\ \E outcome \in CleanupOutcomes :
          LET c == _cleanup_temp_dir(outcome)
          IN  IF CleansUp
              THEN /\ steps' = Append(steps, "cleanup")
                   /\ cleanup' = c.did
                   /\ \E left \in Remains(outcome) :
                         temp_dirs' = IF left THEN temp_dirs ELSE temp_dirs \ {idx}
                   /\ IF c.raised
                      THEN pc' = "done" /\ result' = EXIT_EXECUTION_ERROR /\ idx' = idx
                      ELSE IF pending # NoResult
                           THEN pc' = "done" /\ result' = pending /\ idx' = idx
                           ELSE NextProject
              ELSE /\ UNCHANGED <<steps, cleanup, temp_dirs>>
                   /\ IF pending # NoResult
                      THEN pc' = "done" /\ result' = pending /\ idx' = idx
                      ELSE NextProject
    /\ UNCHANGED <<cfg, gitlab, repos, calls, to_visit, visited, projects, used, plan,
                   cache, exists, attempt, clone_dir, pending, r_org, r_mem, nameVars, limiterVars>>

-----------------------------------------------------------------------------
(* github_target.py: the URL of the push                                   *)

Str_scheme_sep == <<":", "/", "/">>
Str_https == <<"h", "t", "t", "p", "s">>
Str_api_github_com == <<"a", "p", "i", ".", "g", "i", "t", "h", "u", "b", ".", "c", "o", "m">>
Str_github_com == <<"g", "i", "t", "h", "u", "b", ".", "c", "o", "m">>
Str_api_v3 == <<"/", "a", "p", "i", "/", "v", "3">>
Str_dot_git == <<".", "g", "i", "t">>
Str_git_at == <<"g", "i", "t", "@">>

\* str.find: the first position at which sub occurs in s, 0 if it does not.
IndexOf(s, sub) ==
    LET at == {i \in 1..(Len(s) - Len(sub) + 1) : SubSeq(s, i, i + Len(sub) - 1) = sub}
    IN  IF at = {} THEN 0 ELSE CHOOSE i \in at : \A j \in at : i <= j

\* str.rstrip(chars) and str.endswith(suffix).
RStrip(s, chars) == Reverse(DropWhile(Reverse(s), chars))
EndsWith(s, suffix) ==
    Len(s) >= Len(suffix) /\ SubSeq(s, Len(s) - Len(suffix) + 1, Len(s)) = suffix

\* urlparse(url) for a URL without parameters, query or fragment: the scheme
\* before "://", the netloc up to the next "/", and the path from there on.
urlparse(url) ==
    LET k == IndexOf(url, Str_scheme_sep)
        rest == SubSeq(url, k + Len(Str_scheme_sep), Len(url))
        slash == IndexOf(rest, <<"/">>)
    IN  IF k = 0
        THEN [scheme |-> <<>>, netloc |-> <<>>, path |-> url]
        ELSE [scheme |-> SubSeq(url, 1, k - 1),
              netloc |-> IF slash = 0 THEN rest ELSE SubSeq(rest, 1, slash - 1),
              path |-> IF slash = 0 THEN <<>> ELSE SubSeq(rest, slash, Len(rest))]

\* GitHubTargetConfig.api_url as SyncOrchestrator.__init__ sets it.
TargetApiUrl(url) == RStrip(url, {"/"})

\* _git_base_url that leaves the path of the API endpoint as it is.
GitBaseUrlWithApiPath(url) ==
    LET parsed == urlparse(url)
    IN  IF parsed.netloc = Str_api_github_com
        THEN Str_https \o Str_scheme_sep \o Str_github_com
        ELSE parsed.scheme \o Str_scheme_sep \o parsed.netloc \o RStrip(parsed.path, {"/"})

\* GitHubTarget._git_base_url
_git_base_url(url) ==
    LET parsed == urlparse(url)
        stripped == RStrip(parsed.path, {"/"})
        base_path == IF EndsWith(stripped, Str_api_v3)
                     THEN SubSeq(stripped, 1, Len(stripped) - Len(Str_api_v3))
                     ELSE stripped
    IN  IF parsed.netloc = Str_api_github_com
        THEN Str_https \o Str_scheme_sep \o Str_github_com
        ELSE parsed.scheme \o Str_scheme_sep \o parsed.netloc \o base_path

\* GitHubTarget._git_hostname
_git_hostname(url) ==
    LET parsed == urlparse(url)
    IN  IF parsed.netloc = Str_api_github_com THEN Str_github_com ELSE parsed.netloc

\* GitHubTarget._get_github_url
_get_github_url(url, method, org, validated_name) ==
    IF method = "ssh"
    THEN Str_git_at \o _git_hostname(url) \o <<":">> \o org \o <<"/">>
             \o validated_name \o Str_dot_git
    ELSE RStrip(_git_base_url(url), {"/"}) \o <<"/">> \o org \o <<"/">>
             \o validated_name \o Str_dot_git

-----------------------------------------------------------------------------
(* A whole run                                                             *)

MaxRootProjects == 2

Str_ex == <<"e", "x">>
Str_org == <<"o", "r", "g">>
Path_repo == <<"e", "x", "/", "r", "e", "p", "o">>
Path_a_b == <<"e", "x", "/", "a", "/", "b">>
Path_a == <<"e", "x", "/", "a">>
Name_repo == <<"r", "e", "p", "o">>
Name_a_b == <<"a", "-", "b">>

\* The projects of the test of _plan_names: one path, ids 1001 and 1002.
Project1001 == [path_with_namespace |-> Path_repo, id |-> 1001, visibility |-> "private"]
Project1002 == [path_with_namespace |-> Path_repo, id |-> 1002, visibility |-> "public"]
ProjectAB == [path_with_namespace |-> Path_a_b, id |-> 7, visibility |-> "internal"]

\* A subgroup as the listing of descendant groups shows it.
SubgroupA == [id |-> 42, full_path |-> Path_a]

RunGitLabs ==
    {[root_projects |-> rp, subgroups |-> sg, group_projects |-> (42 :> <<ProjectAB>>)] :
        rp \in StringsUpTo({Project1001, Project1002}, MaxRootProjects),
        sg \in {<<>>, <<SubgroupA, SubgroupA>>}}

RunConfigs ==
    {[namespace |-> Str_ex, org |-> Str_org, name_prefix |-> <<>>, flatten_sep |-> <<"-">>,
      exclude |-> <<>>, include_archived |-> FALSE,
      dry_run |-> d, force_reimport |-> f, wait |-> w,
      clone_method |-> a[1], username |-> a[2]] :
        d \in BOOLEAN, f \in BOOLEAN, w \in BOOLEAN,
        a \in {<<"https", <<>>>>, <<"https", <<"u">>>>, <<"ssh", <<>>>>}}

NoArgs == [path |-> <<>>, root |-> <<>>, prefix |-> <<>>, sep |-> <<>>]

\* _get_github_url is not being applied.
UrlIdle ==
    /\ urlPc = "idle"
    /\ api_url = <<>>
    /\ push_method = "https"
    /\ org_name = <<>>
    /\ repo_name = <<>>
    /\ github_url = <<>>

\* The local variable askpass_script while it is None.
NoScript == "None"

\* No clone or push is in progress.
HelperIdle ==
    /\ hPc = "idle"
    /\ hStep = "clone"
    /\ clone_token = FALSE
    /\ push_https = FALSE
    /\ askpass_script = NoScript
    /\ helper_files = {}
    /\ created = {}
    /\ removals = {}
    /\ git_outcome = "none"

\* No name function is being applied.
NamesIdle ==
    /\ UrlIdle
    /\ HelperIdle
    /\ nmPc = "idle"
    /\ nmIn = <<>>
    /\ nmOut = <<>>
    /\ nmTwice = <<>>
    /\ nmArgs = NoArgs
    /\ nmMapped = <<>>

NumThreads == 2
Threads == 1..NumThreads
NoThread == 0

\* No thread is inside wait_if_needed, and the limiter is as constructed.
LimiterIdle ==
    /\ max_requests = 1
    /\ requests = <<>>
    /\ lock = NoThread
    /\ now = 0
    /\ rlPc = [t \in Threads |-> "idle"]
    /\ current_time = [t \in Threads |-> 0]
    /\ wake = [t \in Threads |-> 0]
    /\ admitted = <<>>

\* The locals of run() and of what it calls, before they are assigned.
RunLocalsInit ==
    /\ calls = <<>>
    /\ result = NoResult
    /\ to_visit = <<>>
    /\ visited = {}
    /\ projects = <<>>
    /\ used = {}
    /\ plan = <<>>
    /\ cache = <<>>
    /\ idx = 0
    /\ exists = FALSE
    /\ attempt = 0
    /\ clone_dir = NoDir
    /\ steps = <<>>
    /\ pending = NoResult
    /\ r_org = NoAnswer
    /\ r_mem = NoAnswer
    /\ cleanup = <<>>
    /\ temp_dirs = {}

Init ==
    /\ cfg \in RunConfigs
    /\ gitlab \in RunGitLabs
    /\ repos \in SUBSET {Name_repo}
    /\ pc = "connect_gl"
    /\ RunLocalsInit
    /\ NamesIdle
    /\ LimiterIdle

Next ==
    \/ ConnectGitLab
    \/ GhCheckVisibility
    \/ GhCheckMembership
    \/ GhGetOrg
    \/ ListRoot
    \/ ListVisit
    \/ ListReturn
    \/ PlanStep
    \/ DryRun
    \/ StartMigration
    \/ CheckExists
    \/ DeleteRepo
    \/ CreateRepo
    \/ AuthCheck
    \/ ValidateInputs
    \/ PollRepo
    \/ StagingDir
    \/ CloneFromGitLab
    \/ PushToGitHub
    \/ Finally

Spec == Init /\ [][Next]_vars

-----------------------------------------------------------------------------
(* Properties of a whole run                                               *)

\* The number of entries of a sequence equal to x.
CountOf(seq, x) == Cardinality({k \in DOMAIN seq : seq[k] = x})

\* The number of calls op issued for name.
CallsOf(op, name) ==
    Cardinality({k \in DOMAIN calls : calls[k].op = op /\ calls[k].name = name})

\* The calls that change the destination or transfer a repository.
MutatingOps == {"create_repo", "delete_repo", "start_import", "git.clone", "git.push"}

\* The start_import calls of the run, in order.
Imports == SelectSeq(calls, LAMBDA c : c.op = "start_import")

\* The positions of run() inside start_import.
ImportPcs == {"validate", "wait", "staging", "clone", "push", "finally"}

\* C3: in a dry run no create, delete or transfer call is ever issued; once
\* _plan_names has returned the only step is the return of EXIT_SUCCESS,
\* without any call; and nothing follows the return.
C3_DryRunIssuesNothing ==
    /\ [](cfg.dry_run => \A k \in DOMAIN calls : calls[k].op \notin MutatingOps)
    /\ [][(cfg.dry_run /\ PlanReturned)
             => (calls' = calls /\ repos' = repos /\ pc' = "done" /\ result' = EXIT_SUCCESS)]_vars
    /\ [][pc # "done"]_vars

\* A dry run over a plan of three projects has returned EXIT_SUCCESS.
C3_Witness ==
    /\ cfg.dry_run
    /\ pc = "done"
    /\ result = EXIT_SUCCESS
    /\ Len(plan) = 3

\* The name of the project being processed.
CurrentName == plan[idx].name

\* C4: with force_reimport, a project whose planned name exists at the
\* destination goes to delete_repo; a delete that succeeded is the one
\* delete_repo for the name, leaves the cache entry False and leads to
\* create_repo; a create that succeeded is the one create_repo for the name
\* and leaves the cache entry True.
C4_ForceReimportDeletesThenCreates ==
    /\ [](\A i \in 1..Len(plan) : /\ CallsOf("delete_repo", plan[i].name) <= 1
                                  /\ CallsOf("create_repo", plan[i].name) <= 1)
    /\ [](pc = "delete" => cfg.force_reimport /\ exists)
    /\ [][(pc = "exists" /\ pc' # "done" /\ cfg.force_reimport /\ CurrentName \in repos)
             => pc' = "delete"]_vars
    /\ [][(pc = "delete" /\ pc' # "done")
             => /\ pc' = "create"
                /\ cache'[CurrentName] = FALSE
                /\ CurrentName \notin repos'
                /\ CallsOf("delete_repo", CurrentName)' = 1
                /\ CallsOf("create_repo", CurrentName)' = 0]_vars
    /\ [][(pc = "create" /\ pc' # "done")
             => /\ pc' = "auth"
                /\ cache'[CurrentName] = TRUE
                /\ CurrentName \in repos'
                /\ CallsOf("create_repo", CurrentName)' = 1]_vars

\* An existing repository was deleted and created again, once each.
C4_Witness ==
    /\ cfg.force_reimport
    /\ pc = "auth"
    /\ CallsOf("delete_repo", CurrentName) = 1
    /\ CallsOf("create_repo", CurrentName) = 1
    /\ cache[CurrentName] = TRUE

\* C5: _cleanup_temp_dir runs at most once in an invocation of start_import,
\* and exactly once in an invocation that allocated its staging directory
\* and has ended: after a failed clone, after a failed push, after neither.
C5_CleanupExactlyOnce ==
    /\ CountOf(steps, "cleanup") <= 1
    /\ (pc \notin ImportPcs /\ CountOf(steps, "staging_ok") = 1)
           => CountOf(steps, "cleanup") = 1
    /\ \A s \in {"clone_failed", "clone_timeout", "clone_error",
                 "push_failed", "push_timeout", "push_error", "push_ok"} :
           (pc \notin ImportPcs /\ CountOf(steps, s) = 1) => CountOf(steps, "cleanup") = 1

\* The clone failed and the run ended after one cleanup.
C5_Witness ==
    /\ pc = "done"
    /\ CountOf(steps, "clone_failed") = 1
    /\ CountOf(steps, "cleanup") = 1
    /\ result = EXIT_GITHUB_ERROR

\* C10: the plan lists the projects in the order list_projects returned
\* them, the i-th start_import is for the i-th entry of the plan, and a
\* migration that returned EXIT_SUCCESS imported every project.
C10_MigrationInPlanOrder ==
    /\ \A i \in 1..Len(plan) : plan[i].project = projects[i]
    /\ Len(Imports) <= Len(plan)
    /\ \A i \in 1..Len(Imports) : Imports[i].name = plan[i].name
    /\ (pc = "done" /\ result = EXIT_SUCCESS /\ ~cfg.dry_run)
           => Len(Imports) = Len(projects)

\* Three projects were imported and the run returned EXIT_SUCCESS.
C10_Witness ==
    /\ pc = "done"
    /\ result = EXIT_SUCCESS
    /\ Len(Imports) = 3
    /\ Imports[1].name # Imports[3].name

\* The pipeline of the project being processed has gone through its last
\* step, the push, without a failure.
PipelineSucceeded ==
    /\ pc = "finally"
    /\ pending = NoResult
    /\ steps # <<>>
    /\ steps[Len(steps)] = "push_ok"

\* The calls run() issues for one project.
ProjectOps == {"delete_repo", "create_repo", "start_import"}

\* C11: fail-fast.  No delete_repo, create_repo or start_import is ever
\* issued for a project after the one being processed; run() goes on to the
\* next project (and to its existence check) only from a pipeline that
\* succeeded; a migration returns EXIT_SUCCESS only after the pipeline of
\* the last project succeeded, so a failed step makes it return a non-zero
\* code; and nothing follows the return.
C11_FailFast ==
    /\ [](\A k \in (idx + 1)..Len(plan) : \A op \in ProjectOps : CallsOf(op, plan[k].name) = 0)
    /\ [](pc \in {"exists", "delete", "create", "auth"} \cup ImportPcs => idx \in 1..Len(plan))
    /\ [][idx' # idx => /\ idx' = idx + 1
                        /\ pc' = "exists"
                        /\ idx = 0 \/ PipelineSucceeded]_vars
    /\ [][(pc' = "done" /\ ~cfg.dry_run /\ result' = EXIT_SUCCESS)
             => /\ idx = Len(plan)
                /\ idx = 0 \/ PipelineSucceeded]_vars
    /\ [][pc' = "done" => result' # NoResult]_vars
    /\ [][pc = "done" => FALSE]_vars

\* The clone of the first of three projects failed: the run has ended with
\* the destination error code and nothing was issued for the other two.
C11_Witness ==
    /\ pc = "done"
    /\ result = EXIT_GITHUB_ERROR
    /\ idx = 1
    /\ Len(plan) = 3
    /\ CountOf(steps, "clone_failed") = 1
    /\ Len(Imports) = 1

\* run() has ended because an existence lookup of the planning raised: the
\* registry answered the lookup with an error that is not a 404.
LookupFailed ==
    /\ pc = "done"
    /\ Len(plan) < Len(projects)
    /\ calls # <<>>
    /\ calls[Len(calls)].op = "gh.repo_exists"

\* run() has ended because git clone or git push failed or timed out.
TransferFailed ==
    /\ pc = "done"
    /\ \E s \in {"clone_failed", "clone_timeout", "push_failed", "push_timeout"} :
          CountOf(steps, s) = 1

\* The codes of the failure categories other than the transfer.
OtherCategoryCodes ==
    {EXIT_AUTH_ERROR, EXIT_GITLAB_ERROR, EXIT_GITHUB_ERROR, EXIT_EXECUTION_ERROR}

\* C12: a failure yields the code of its category and no two categories
\* share a code: a non-404 error of the destination existence check yields
\* the destination code, and a failed transfer yields a code that is none of
\* the authentication, source, destination and unexpected-error codes.
C12_CodePerCategory ==
    /\ LookupFailed => result = EXIT_GITHUB_ERROR
    /\ TransferFailed => result \notin OtherCategoryCodes

\* The three conditions of the username check hold for the project being
\* processed: token-based clone, a visibility that is not public (a project
\* without the attribute counts as private), no GitLab username.
UsernameMissing ==
    /\ cfg.clone_method = "https"
    /\ LET project == plan[idx].project
       IN  "visibility" \in DOMAIN project => project.visibility # "public"
    /\ cfg.username = <<>>

\* C13: when the three conditions hold the check ends the run with
\* EXIT_AUTH_ERROR without a call, and start_import was not and is never
\* invoked for that project or a later one; when one of them is false the
\* check goes on to start_import for the project.
C13_UsernameCheck ==
    /\ [][pc = "auth"
            => IF UsernameMissing
               THEN pc' = "done" /\ result' = EXIT_AUTH_ERROR /\ calls' = calls
               ELSE /\ pc' = "validate"
                    /\ result' = NoResult
                    /\ calls' = Append(calls, Call("start_import", CurrentName))]_vars
    /\ []((pc = "done" /\ idx >= 1 /\ result = EXIT_AUTH_ERROR)
            => \A k \in idx..Len(plan) : CallsOf("start_import", plan[k].name) = 0)
    /\ [][pc = "done" => calls' = calls]_vars

\* The first project, public, was imported over HTTPS without a username;
\* the second, private, ended the run with EXIT_AUTH_ERROR.
C13_Witness ==
    /\ pc = "done"
    /\ result = EXIT_AUTH_ERROR
    /\ idx = 2
    /\ cfg.clone_method = "https"
    /\ cfg.username = <<>>
    /\ plan[1].project.visibility = "public"
    /\ plan[2].project.visibility = "private"
    /\ Len(Imports) = 1

\* The existence queries issued to the registry so far.
RepoExistsCalls == SelectSeq(calls, LAMBDA c : c.op = "gh.repo_exists")

\* C14: the registry is asked about a name at most once in a run; every
\* planned name was asked about during planning and is in the cache; and
\* outside planning no existence query is issued.
C14_OneQueryPerName ==
    /\ [](\A k \in DOMAIN RepoExistsCalls :
              CallsOf("gh.repo_exists", RepoExistsCalls[k].name) = 1)
    /\ [](\A i \in 1..Len(plan) : /\ plan[i].name \in DOMAIN cache
                                  /\ CallsOf("gh.repo_exists", plan[i].name) = 1)
    /\ [][pc # "plan" => RepoExistsCalls' = RepoExistsCalls]_vars

\* A migration of two projects with one path onto an existing name, with
\* force_reimport, has returned: the existence of the first name was read
\* from the cache (the repository was deleted), and the registry was asked
\* once per cached name.
C14_Witness ==
    /\ pc = "done"
    /\ result = EXIT_SUCCESS
    /\ cfg.force_reimport
    /\ Len(plan) = 2
    /\ plan[1].project.path_with_namespace = plan[2].project.path_with_namespace
    /\ CallsOf("delete_repo", plan[1].name) = 1
    /\ Len(RepoExistsCalls) = Cardinality(DOMAIN cache)
    /\ Len(RepoExistsCalls) = 2

\* The steps of an invocation of start_import in which nothing failed,
\* without the wait and with it.
StepsNoWait == <<"wait_skipped", "staging_ok", "clone_ok", "push_ok", "cleanup">>
StepsWait == <<"validated", "available", "staging_ok", "clone_ok", "push_ok", "cleanup">>

\* An invocation of start_import has ended without a failure.
ImportSucceeded ==
    /\ pc \notin ImportPcs
    /\ pending = NoResult
    /\ steps # <<>>
    /\ steps[Len(steps)] = "cleanup"

\* C15: in no-wait mode wait_repo_available is never entered and no poll
\* is issued, validated inputs lead straight to the staging directory, and
\* an invocation in which nothing fails is staging, clone, push and cleanup,
\* once each; in wait mode the staging directory is reached only from the
\* poll, after at least one request.
C15_NoWaitSkipsPoll ==
    /\ [](~cfg.wait => attempt = 0 /\ pc # "wait" /\ CountOf(steps, "available") = 0)
    /\ [][(~cfg.wait /\ pc = "validate" /\ pc' # "done") => pc' = "staging"]_vars
    /\ []((~cfg.wait /\ ImportSucceeded) => steps = StepsNoWait)
    /\ [][(cfg.wait /\ pc' = "staging") => (pc = "wait" /\ attempt' >= 1)]_vars
    /\ []((cfg.wait /\ ImportSucceeded) => steps = StepsWait)

\* A migration in no-wait mode has imported its projects and returned.
C15_Witness ==
    /\ ~cfg.wait
    /\ pc = "done"
    /\ result = EXIT_SUCCESS
    /\ Len(Imports) = 2
    /\ attempt = 0
    /\ steps = StepsNoWait

\* C16: wait_repo_available issues at most attempts requests; it returns
\* True with the request answered 200, and no request follows its return; a
\* request not answered 200 is followed by another one while fewer than
\* attempts were issued; it returns False after exactly attempts requests,
\* and then start_import ends the run with EXIT_GITHUB_ERROR without a
\* staging directory, a clone or a push (each of which leaves a step).
C16_PollBounded ==
    /\ [](attempt <= WaitAttempts)
    /\ [][attempt' # attempt => \/ pc = "wait" /\ attempt' = attempt + 1
                                \/ pc = "auth" /\ attempt' = 0]_vars
    /\ [][(pc = "wait" /\ pc' = "staging")
             => /\ steps' = Append(steps, "available")
                /\ clone_dir' = NoDir]_vars
    /\ [][(pc = "wait" /\ pc' = "wait") => attempt' < WaitAttempts]_vars
    /\ [][(pc = "wait" /\ pc' = "done")
             => /\ attempt' = WaitAttempts
                /\ result' = EXIT_GITHUB_ERROR
                /\ steps' = <<"validated", "not_available">>
                /\ clone_dir' = NoDir]_vars
    /\ [][pc = "wait" => pc' \in {"wait", "staging", "done"}]_vars

\* The tenth request for the second project was not answered 200: the run
\* has ended with EXIT_GITHUB_ERROR.
C16_Witness ==
    /\ pc = "done"
    /\ result = EXIT_GITHUB_ERROR
    /\ idx = 2
    /\ attempt = WaitAttempts
    /\ steps = <<"validated", "not_available">>

\* connect has ended the run in its preflight: after the organisation
\* lookup or after the membership check.
PreflightFailed ==
    /\ pc = "done"
    /\ calls # <<>>
    /\ calls[Len(calls)].op \in {"gh.get_org_rest", "gh.get_membership"}

\* C17: the preflight ends the run only when the organisation lookup was
\* answered 401, 403 or 404; after any other answer to it, and after every
\* result of the membership check, connect proceeds.
C17_PreflightHardFailures ==
    /\ PreflightFailed => r_org \in {"401", "403", "404"}
    /\ (pc = "done" /\ r_mem # NoAnswer) => ~PreflightFailed

\* The outbound API calls of the Source Catalog and of the Target Registry.
GitLabOps == {"gl.root_group.get", "gl.root_group.projects", "gl.root_group.subgroups",
              "gl.subgroup.get", "gl.subgroup.projects"}
GitHubOps == {"gh.get_org_rest", "gh.get_membership", "gh.get_organization",
              "gh.repo_exists", "gh.get_repo", "delete_repo", "create_repo"}

\* The platform whose RateLimiter is to admit a call.
PlatformOf(op) == IF op \in GitLabOps THEN "gitlab" ELSE "github"

\* The k-th call is an admission by the limiter of the platform.
IsAdmission(k, platform) ==
    /\ k \in DOMAIN calls
    /\ calls[k].op = "wait_if_needed"
    /\ calls[k].name = platform

\* C18: every outbound API call is immediately preceded by its own
\* wait_if_needed on the limiter of its platform, so the outbound calls to
\* a platform never outnumber the admissions of its limiter.  (The requests
\* of the polling are not in calls.)
C18_EveryCallAdmitted ==
    /\ \A k \in DOMAIN calls :
           calls[k].op \in GitLabOps \cup GitHubOps
               => IsAdmission(k - 1, PlatformOf(calls[k].op))
    /\ \A platform \in {"gitlab", "github"} :
           Cardinality({k \in DOMAIN calls : /\ calls[k].op \in GitLabOps \cup GitHubOps
                                              /\ PlatformOf(calls[k].op) = platform})
               <= Cardinality({k \in DOMAIN calls : IsAdmission(k, platform)})

\* The positions in calls of the calls op issued for name.
PositionsOf(op, name) == {k \in DOMAIN calls : calls[k].op = op /\ calls[k].name = name}

\* The step issues the call op for the current name.
Issues(op) ==
    /\ idx \in 1..Len(plan)
    /\ \E k \in (Len(calls) + 1)..Len(calls') :
           calls'[k].op = op /\ calls'[k].name = CurrentName

\* The cache entry of the current name.
CachedExists == CurrentName \in DOMAIN cache /\ cache[CurrentName]

\* C23: a project is processed in the order existence check, delete (only if
\* the name exists and force_reimport is set), create (only if the name does
\* not exist after the delete step), username check, start_import: every
\* step of a project leads to the next one of that order or ends run();
\* delete_repo is issued only for a name whose cache entry is True, under
\* force_reimport; create_repo only for a name whose cache entry is False;
\* start_import only once the cache entry is True; and in calls the delete
\* of a name precedes its create, which precedes its start_import.
C23_StepOrder ==
    /\ [][pc = "exists" =>
              \/ pc' = "done" /\ result' # EXIT_SUCCESS
              \/ pc' = "delete" /\ CachedExists' /\ cfg.force_reimport
              \/ pc' = "create" /\ ~CachedExists'
              \/ pc' = "auth" /\ CachedExists' /\ ~cfg.force_reimport]_vars
    /\ [][pc = "delete" => \/ pc' = "done" /\ result' # EXIT_SUCCESS
                           \/ pc' = "create" /\ ~CachedExists']_vars
    /\ [][pc = "create" => \/ pc' = "done" /\ result' # EXIT_SUCCESS
                           \/ pc' = "auth" /\ CachedExists']_vars
    /\ [][pc = "auth" => \/ pc' = "done" /\ result' = EXIT_AUTH_ERROR
                         \/ pc' = "validate" /\ Issues("start_import")]_vars
    /\ [][Issues("delete_repo") => pc = "delete" /\ CachedExists /\ cfg.force_reimport]_vars
    /\ [][Issues("create_repo") => pc = "create" /\ ~CachedExists]_vars
    /\ [][Issues("start_import") => pc = "auth" /\ CachedExists]_vars
    /\ [](\A i \in 1..Len(plan) :
              \A d \in PositionsOf("delete_repo", plan[i].name),
                 c \in PositionsOf("create_repo", plan[i].name),
                 s \in PositionsOf("start_import", plan[i].name) : d < c /\ c < s)
    /\ [](\A i \in 1..Len(plan) :
              \A m \in PositionsOf("create_repo", plan[i].name)
                           \cup PositionsOf("delete_repo", plan[i].name),
                 s \in PositionsOf("start_import", plan[i].name) : m < s)

\* Under force_reimport the first name existed: it was deleted, created and
\* then imported, in that order, and the run returned success.
C23_Witness ==
    /\ pc = "done"
    /\ result = EXIT_SUCCESS
    /\ cfg.force_reimport
    /\ Len(plan) >= 1
    /\ \E d \in PositionsOf("delete_repo", plan[1].name),
          c \in PositionsOf("create_repo", plan[1].name),
          s \in PositionsOf("start_import", plan[1].name) : d < c /\ c < s

\* The steps in which git clone and git push were attempted, and the steps
\* of the staging directory.
CloneSteps == {"clone_" \o outcome : outcome \in GitOutcomes}
PushSteps == {"push_" \o outcome : outcome \in GitOutcomes}
StagingSteps == {"staging_ok", "staging_failed"}

\* The verification succeeded, or was skipped.
Verified(step) == step \in {"available", "wait_skipped"}

\* run() is leaving start_import: by its return, or by the exit it raised.
ImportEnds == pc \in ImportPcs /\ pc' \notin ImportPcs

\* C24: the steps of one start_import follow Verifying (when enabled),
\* StagingDir, Cloning, Pushing, CleanedUp: the staging directory is asked
\* for only after the verification succeeded or was skipped (and the
\* verification is made exactly when the wait is enabled); git clone is
\* attempted only after that and with the directory allocated; git push
\* only right after a clone that succeeded; the cleanup comes last, after
\* the clone or the push; and the invocation returns to run() only if the
\* push succeeded, and otherwise ends run() with a non-zero code.
C24_ImportStepOrder ==
    /\ [](\A k \in DOMAIN steps :
              /\ steps[k] \in StagingSteps => k > 1 /\ Verified(steps[k - 1])
              /\ steps[k] \in CloneSteps
                     => k > 2 /\ steps[k - 1] = "staging_ok" /\ Verified(steps[k - 2])
              /\ steps[k] \in PushSteps => k > 1 /\ steps[k - 1] = "clone_ok"
              /\ steps[k] = "cleanup"
                     => k = Len(steps) /\ k > 1 /\ steps[k - 1] \in CloneSteps \cup PushSteps
              /\ steps[k] = "available" => wait_for_repo /\ k > 1 /\ steps[k - 1] = "validated"
              /\ steps[k] = "wait_skipped" => ~wait_for_repo /\ k = 1)
    /\ [][Issues("git.clone") =>
              /\ pc = "clone" /\ clone_dir # NoDir
              /\ steps # <<>> /\ steps[Len(steps)] = "staging_ok"]_vars
    /\ [][Issues("git.push") =>
              /\ pc = "push"
              /\ steps # <<>> /\ steps[Len(steps)] = "clone_ok"]_vars
    /\ [][ImportEnds =>
              IF CountOf(steps', "push_ok") = 1
              THEN pc' = "exists" \/ (pc' = "done" /\ result' = EXIT_SUCCESS)
              ELSE pc' = "done" /\ result' \notin {EXIT_SUCCESS, NoResult}]_vars

\* An invocation with the wait enabled in which the clone succeeded and the
\* push timed out: it went through every step, cleaned up and ended run().
C24_Witness ==
    /\ pc = "done"
    /\ result = EXIT_GITHUB_ERROR
    /\ steps = <<"validated", "available", "staging_ok", "clone_ok", "push_timeout", "cleanup">>

\* C27: a failure of the removal of the staging directory is never
\* escalated: whatever _cleanup_temp_dir meets, the finally block ends as the
\* transfer decided, with the pending exit code or, when nothing is pending,
\* with the next project or the return of EXIT_SUCCESS; the removal is
\* tried once per invocation, and the forced removal is tried once after
\* the removal failed with an OSError and not otherwise.
C27_CleanupNeverEscalates ==
    /\ [][(pc = "finally" /\ pending # NoResult)
              => pc' = "done" /\ result' = pending /\ idx' = idx]_vars
    /\ [][(pc = "finally" /\ pending = NoResult)
              => \/ pc' = "exists" /\ idx' = idx + 1 /\ result' = NoResult
                 \/ pc' = "done" /\ idx = Len(plan) /\ result' = EXIT_SUCCESS]_vars
    /\ [][cleanup' # cleanup => \/ pc = "finally" /\ CleansUp
                                \/ pc = "auth" /\ cleanup' = <<>>]_vars
    /\ [](/\ CountOf(cleanup, "rmtree") <= 1
          /\ CountOf(cleanup, "force_rmtree") = CountOf(cleanup, "CLEANUP_FAILED")
          /\ CountOf(cleanup, "force_rmtree") <= 1
          /\ CountOf(cleanup, "CLEANUP_FAILED") + CountOf(cleanup, "CLEANUP_SUCCESS")
                 + CountOf(cleanup, "CLEANUP_EXCEPTION") = CountOf(cleanup, "rmtree")
          /\ \A k \in DOMAIN cleanup :
                 cleanup[k] = "force_rmtree" => k > 1 /\ cleanup[k - 1] = "CLEANUP_FAILED")

\* The transfer of the first project succeeded, the removal of its staging
\* directory failed and the forced removal was tried: run() is at the second
\* project.
C27_Witness ==
    /\ pc = "exists"
    /\ idx = 2
    /\ result = NoResult
    /\ steps[Len(steps)] = "cleanup"
    /\ CountOf(steps, "push_ok") = 1
    /\ cleanup = <<"rmtree", "CLEANUP_FAILED", "force_rmtree", "warn">>

\* The steps in which git clone or git push exited non-zero, and those in
\* which it timed out.
NonZeroSteps == {"clone_failed", "push_failed"}
TimeoutSteps == {"clone_timeout", "push_timeout"}

\* C28: a clone or a push that exits non-zero or times out makes
\* EXIT_GITHUB_ERROR pending and leads to the finally block with the staging
\* directory still allocated; the cleanup is the last step before run()
\* returns, and it has run whenever run() has returned after such a step; a
\* timeout ends as a non-zero exit does: the same code, the cleanup, and no
\* delete, create or import for any project after the current one.
C28_FatalAfterCleanup ==
    /\ [][(pc \in {"clone", "push"}
              /\ steps'[Len(steps')] \in NonZeroSteps \cup TimeoutSteps)
              => /\ pc' = "finally"
                 /\ pending' = EXIT_GITHUB_ERROR
                 /\ clone_dir' = clone_dir
                 /\ CleansUp'
                 /\ result' = NoResult]_vars
    /\ [][(pc = "finally" /\ pending # NoResult /\ CleansUp)
              => /\ steps' = Append(steps, "cleanup")
                 /\ cleanup' # cleanup \/ cleanup' = <<>>
                 /\ pc' = "done"
                 /\ result' = pending]_vars
    /\ [](\A s \in NonZeroSteps \cup TimeoutSteps :
              (pc = "done" /\ CountOf(steps, s) = 1)
                  => /\ result = EXIT_GITHUB_ERROR
                     /\ steps[Len(steps)] = "cleanup"
                     /\ CountOf(steps, "cleanup") = 1
                     /\ Len(Imports) = idx
                     /\ \A k \in (idx + 1)..Len(plan) :
                            \A op \in ProjectOps : CallsOf(op, plan[k].name) = 0)
    /\ [](\A s \in NonZeroSteps \cup TimeoutSteps :
              (pc \in ImportPcs /\ CountOf(steps, s) = 1)
                  => pc = "finally" /\ pending = EXIT_GITHUB_ERROR)

\* The clone of the first of several projects timed out: the staging
\* directory was removed and run() returned EXIT_GITHUB_ERROR.
C28_Witness ==
    /\ pc = "done"
    /\ result = EXIT_GITHUB_ERROR
    /\ idx = 1
    /\ Len(plan) >= 2
    /\ steps = <<"wait_skipped", "staging_ok", "clone_timeout", "cleanup">>
    /\ cleanup = <<"rmtree", "CLEANUP_SUCCESS">>

\* C30: the destination being changed by this run alone, every entry of the
\* cache equals the existence of its name at the destination whenever it
\* can be read; a delete that succeeded leaves the entry of its name False
\* and a create that succeeded leaves it True, in the step that issues it;
\* an entry changes in no other way, and no entry ever leaves the cache.
C30_CacheCoherent ==
    /\ [](\A name \in DOMAIN cache : cache[name] = (name \in repos))
    /\ [][(pc = "exists" /\ pc' # "done") => exists' = (CurrentName \in repos)]_vars
    /\ [][(pc = "delete" /\ pc' = "create")
              => ~cache'[CurrentName] /\ CurrentName \notin repos']_vars
    /\ [][(pc = "create" /\ pc' = "auth")
              => cache'[CurrentName] /\ CurrentName \in repos']_vars
    /\ [][\A name \in DOMAIN cache :
              /\ name \in DOMAIN cache'
              /\ cache'[name] # cache[name]
                     => /\ name = CurrentName
                        /\ \/ pc = "delete" /\ pc' = "create" /\ ~cache'[name]
                           \/ pc = "create" /\ pc' = "auth" /\ cache'[name]]_vars
    /\ [][DOMAIN cache' # DOMAIN cache => pc = "plan"]_vars
    /\ [][repos' # repos => pc \in {"delete", "create"}]_vars

\* Under force_reimport the first name existed, was deleted and created
\* again, and run() reads the entry of the second name: the first entry is
\* True and the repository exists, the second is False and it does not.
C30_Witness ==
    /\ pc = "exists"
    /\ idx = 2
    /\ cfg.force_reimport
    /\ CallsOf("delete_repo", plan[1].name) = 1
    /\ CallsOf("create_repo", plan[1].name) = 1
    /\ cache[plan[1].name] /\ plan[1].name \in repos
    /\ ~cache[plan[2].name] /\ plan[2].name \notin repos

\* The positions in run(): the two connections, the discovery, the planning.
ConnectPhase == {"connect_gl", "connect_gh", "gh_membership", "gh_org"}
DiscoveryPhase == {"list", "list_subgroups"}
PlanPhase == {"plan"}

\* The requests of list_projects.
DiscoveryOps == {"gl.root_group.get", "gl.root_group.projects", "gl.root_group.subgroups",
                 "gl.subgroup.get", "gl.subgroup.projects"}

\* The positions of the calls whose operation is in ops.
PositionsIn(ops) == {k \in DOMAIN calls : calls[k].op \in ops}

\* C34: the phases of run() are in order.  A request of the discovery comes
\* after the last request of both connections and is issued from the
\* discovery only; create_repo, delete_repo and start_import come after the
\* plan of all the projects is complete and after every query of the
\* planning; a run that ends in a connection or in the discovery has changed
\* nothing at the destination, has issued none of these calls and returns a
\* code that is not 0.
C34_PhasesOrdered ==
    /\ [](\A d \in PositionsIn(DiscoveryOps) :
              /\ \E k \in PositionsIn({"gl.auth"}) : k < d
              /\ \E k \in PositionsIn({"gh.get_organization"}) : k < d)
    /\ [][Len(PlatformCalls(calls')) > Len(PlatformCalls(calls))
              /\ (\E k \in (Len(calls) + 1)..Len(calls') : calls'[k].op \in DiscoveryOps)
          => pc \in DiscoveryPhase]_vars
    /\ [](PositionsIn(ProjectOps) # {}
              => /\ pc \notin ConnectPhase \cup DiscoveryPhase \cup PlanPhase
                 /\ Len(plan) = Len(projects)
                 /\ \A m \in PositionsIn(ProjectOps) :
                        \A q \in PositionsIn(DiscoveryOps \cup {"gh.repo_exists"}) : q < m)
    /\ [](pc \in ConnectPhase \cup DiscoveryPhase \cup PlanPhase
              => PositionsIn(MutatingOps) = {})
    /\ [][(pc \in ConnectPhase \cup DiscoveryPhase \cup PlanPhase) => repos' = repos]_vars
    /\ [][(pc \in ConnectPhase \cup DiscoveryPhase /\ pc' = "done")
              => /\ result' \notin {EXIT_SUCCESS, NoResult}
                 /\ PositionsIn(MutatingOps)' = {}
                 /\ repos' = repos]_vars

\* The second of two planned projects, found in the root group and in a
\* subgroup, has its repository created: both connections, the discovery
\* and the planning are behind.
C34_Witness ==
    /\ pc = "auth"
    /\ idx = 2
    /\ Len(plan) = 2
    /\ PositionsIn({"gl.subgroup.projects"}) # {}
    /\ PositionsIn({"gh.repo_exists"}) # {}
    /\ CallsOf("create_repo", plan[2].name) = 1
    /\ CallsOf("start_import", plan[1].name) = 1

\* The positions of start_import at which its staging directory is in use.
InFlight == {"clone", "push", "finally"}

\* The removal of the invocation in progress was tried and failed.
RemovalFailed == \E k \in DOMAIN cleanup : cleanup[k] \in {"CLEANUP_FAILED", "CLEANUP_EXCEPTION"}

\* C35: at most one staging directory exists at any moment; a directory that
\* exists is the one of the start_import in flight; once start_import has
\* returned or raised, its directory is gone unless the removal was tried and
\* failed; the cleanup is the last step of an invocation.
C35_StagingOwned ==
    /\ [](\A d \in temp_dirs : d = idx /\ (pc \in InFlight \/ RemovalFailed))
    /\ [][(pc = "finally" /\ ~RemovalFailed') => idx \notin temp_dirs']_vars
    /\ [](\A k \in DOMAIN steps : steps[k] = "cleanup" => k = Len(steps))
    /\ [](Cardinality(temp_dirs) <= 1)

\* The planned names that run() has not yet taken through its existence check.
Unprocessed == {i \in 1..Len(plan) : i > idx \/ (i = idx /\ pc = "exists")}

\* C36: without force_reimport no delete_repo is issued; the name planning
\* emits is cached as not existing until its project is processed, so the
\* existence check always leads to create_repo and never straight to
\* start_import; a project whose start_import is issued had exactly one
\* create_repo, before it.
C36_NoReuseWithoutForce ==
    /\ [](~cfg.force_reimport => PositionsIn({"delete_repo"}) = {})
    /\ [](~cfg.force_reimport
              => \A i \in Unprocessed :
                    plan[i].name \in DOMAIN cache /\ ~cache[plan[i].name])
    /\ [][(~cfg.force_reimport /\ pc = "exists" /\ pc' # "done")
              => pc' = "create" /\ ~exists']_vars
    /\ [](~cfg.force_reimport
              => \A i \in 1..Len(plan) :
                    \A s \in PositionsOf("start_import", plan[i].name) :
                       /\ CallsOf("create_repo", plan[i].name) = 1
                       /\ \A c \in PositionsOf("create_repo", plan[i].name) : c < s)

\* Without force_reimport and with the repository "repo" at the
\* destination, a project mapped to "repo" was planned under another name,
\* created and handed to start_import, as the second of the run.
C36_Witness ==
    /\ ~cfg.force_reimport
    /\ Name_repo \in repos
    /\ idx = 2
    /\ pc = "validate"
    /\ PositionsOf("gh.repo_exists", Name_repo) # {}
    /\ \A i \in 1..2 : /\ plan[i].name # Name_repo
                        /\ CallsOf("create_repo", plan[i].name) = 1
                        /\ CallsOf("start_import", plan[i].name) = 1

\* The positions of run() in the order in which it goes through them, the
\* positions from "exists" to "finally" once for each project.
RunOrder == <<"connect_gl", "connect_gh", "gh_membership", "gh_org", "list", "list_subgroups",
              "plan", "exists", "delete", "create", "auth", "validate", "wait", "staging",
              "clone", "push", "finally", "done">>

Rank(p) == CHOOSE k \in DOMAIN RunOrder : RunOrder[k] = p

\* A step takes run() forward: to a later position for the same project, to
\* the next subgroup, the next name to plan, the next poll or the next project.
Advances ==
    \/ Rank(pc') > Rank(pc) /\ idx' = idx
    \/ pc = "list_subgroups" /\ pc' = pc /\ Len(to_visit') < Len(to_visit)
    \/ pc = "plan" /\ pc' = pc /\ Len(plan') = Len(plan) + 1
    \/ pc = "wait" /\ pc' = pc /\ attempt' = attempt + 1
    \/ pc \in {"plan", "finally"} /\ pc' = "exists" /\ idx' = idx + 1

\* The statement run() is at can be executed: the loops are within their
\* ranges.
CanStep ==
    /\ pc \in {RunOrder[k] : k \in DOMAIN RunOrder}
    /\ Len(plan) <= Len(projects)
    /\ pc = "plan" => idx = 0
    /\ Rank(pc) \in Rank("exists")..Rank("finally") => idx \in 1..Len(plan)
    /\ pc = "wait" => ~Exhausted(attempt)

\* The values run() can return.
ExitCodes == {EXIT_SUCCESS, EXIT_EXECUTION_ERROR, EXIT_GITLAB_ERROR, EXIT_GITHUB_ERROR,
              EXIT_AUTH_ERROR}

\* The last start_import of the run went through its push and nothing is pending.
LastImportCompleted ==
    /\ pending = NoResult
    /\ \E k \in DOMAIN steps : steps[k] = "push_ok"
    /\ \A k \in DOMAIN steps : steps[k] \notin NonZeroSteps \cup TimeoutSteps
                                              \cup {"staging_failed"}

\* C38: run() has a value only once it has returned, and the value is one of
\* the exit codes; until then the statement it is at can be executed and
\* every step, whatever it meets, takes run() forward or to its return, the
\* loops being bounded; nothing follows the return.  run() returns 0 only from a dry run whose plan is
\* complete and which issued no mutating call, or from a migration in which
\* every planned project has its start_import and the last one completed.
C38_RunReturnsCode ==
    /\ [](pc = "done" <=> result # NoResult)
    /\ [](pc = "done" => result \in ExitCodes)
    /\ [](CanStep)
    /\ [][Advances]_vars
    /\ [][pc # "done"]_vars
    /\ [](pc = "done" /\ result = EXIT_SUCCESS
             => IF cfg.dry_run
                THEN Len(plan) = Len(projects) /\ PositionsIn(MutatingOps) = {}
                ELSE /\ Len(plan) = Len(projects)
                     /\ idx = Len(plan)
                     /\ \A i \in 1..Len(plan) : CallsOf("start_import", plan[i].name) = 1
                     /\ Len(plan) > 0 => LastImportCompleted)

\* An existence query of the planning raised after a first project was
\* planned: run()'s handler of Exception returned EXIT_EXECUTION_ERROR.
C38_Witness ==
    /\ pc = "done"
    /\ result = EXIT_EXECUTION_ERROR
    /\ Len(plan) = 1
    /\ Len(projects) > 1
    /\ idx = 0
    /\ PositionsIn({"gh.repo_exists"}) # {}

-----------------------------------------------------------------------------
(* _plan_names on drawn lists of projects and drawn destinations           *)

MaxProjects == 3

Path_a_dash_b == <<"E", "x", "/", "a", "-", "b">>
Path_repo_gl1002 == <<"e", "x", "/", "r", "e", "p", "o", "_", "g", "l", "1", "0", "0", "2">>
Name_repo_gl1002 == <<"r", "e", "p", "o", "_", "g", "l", "1", "0", "0", "2">>
Name_repo_gl1002_2 == Name_repo_gl1002 \o <<"_", "2">>

\* A project without an id attribute, and projects whose base names meet
\* other projects' names.
ProjectNoId == [path_with_namespace |-> Path_repo]
ProjectDashAB == [path_with_namespace |-> Path_a_dash_b, id |-> 8]
ProjectGl == [path_with_namespace |-> Path_repo_gl1002, id |-> 5]

\* A project whose path below the namespace has no character that
\* sanitize_repo_name keeps.
Path_blank == <<"e", "x", "/", " ", ".">>
ProjectBlank == [path_with_namespace |-> Path_blank]

\* A project whose name has two dots in a row.
Path_dots == <<"e", "x", "/", "a", ".", ".", "b">>
ProjectDots == [path_with_namespace |-> Path_dots, id |-> 11]

PlanPool == {Project1001, Project1002, ProjectNoId, ProjectAB, ProjectDashAB, ProjectGl,
             ProjectBlank, ProjectDots}

DestPool == {Name_repo, Name_repo_gl1002, Name_repo_gl1002_2, Name_a_b}

PlanConfigs == {c \in RunConfigs : ~c.dry_run /\ c.wait /\ c.clone_method = "ssh"}

\* run() has connected and listed the projects, and calls _plan_names.
InitPlan ==
    /\ cfg \in PlanConfigs
    /\ gitlab = CHOOSE g \in RunGitLabs : TRUE
    /\ repos \in SUBSET DestPool
    /\ pc = "plan"
    /\ calls = <<>>
    /\ result = NoResult
    /\ to_visit = <<>>
    /\ visited = {}
    /\ projects \in StringsUpTo(PlanPool, MaxProjects)
    /\ used = {}
    /\ plan = <<>>
    /\ cache = <<>>
    /\ idx = 0
    /\ exists = FALSE
    /\ attempt = 0
    /\ clone_dir = NoDir
    /\ steps = <<>>
    /\ pending = NoResult
    /\ r_org = NoAnswer
    /\ r_mem = NoAnswer
    /\ cleanup = <<>>
    /\ temp_dirs = {}
    /\ NamesIdle
    /\ LimiterIdle

NextPlan == PlanStep

SpecPlan == InitPlan /\ [][NextPlan]_vars

\* The base name of a project under the configuration of the run.
BaseName(project) ==
    map_gitlab_to_github_name(project.path_with_namespace, cfg.namespace,
                              cfg.name_prefix, cfg.flatten_sep)

StartsWith(s, prefix) == Len(s) >= Len(prefix) /\ SubSeq(s, 1, Len(prefix)) = prefix

\* C1: the plan _plan_names returns has one entry per project, in order, and
\* no two entries of a plan (returned or under construction) share a name.
C1_PlanNamesDistinct ==
    /\ \A i, j \in 1..Len(plan) : i # j => plan[i].name # plan[j].name
    /\ Len(plan) <= Len(projects)
    /\ \A i \in 1..Len(plan) : plan[i].project = projects[i]
    /\ used = {plan[i].name : i \in 1..Len(plan)}

\* Three times the same project, the first candidate of each existing at the
\* destination: three distinct names are planned.
C1_Witness ==
    /\ PlanReturned
    /\ projects = <<Project1002, Project1002, Project1002>>
    /\ ~cfg.force_reimport
    /\ Name_repo_gl1002 \in repos
    /\ Cardinality(used) = 3

\* C9 as stated: of two projects with one path whose base name is free at
\* the destination, the first of that path in discovery order gets the bare
\* base name and the second a name starting with base + "_gl" + its id.
C9_Original ==
    \A i, j \in 1..Len(plan) :
        (/\ i < j
         /\ projects[i].path_with_namespace = projects[j].path_with_namespace
         /\ \A k \in 1..(i - 1) :
                projects[k].path_with_namespace # projects[i].path_with_namespace
         /\ BaseName(projects[i]) \notin repos
         /\ "id" \in DOMAIN projects[j])
        => /\ plan[i].name = BaseName(projects[i])
           /\ StartsWith(plan[j].name,
                         BaseName(projects[j]) \o Str_gl \o IntToStr(projects[j].id))

\* C9: of two projects with one path whose base name is free at the
\* destination and was given to no earlier project, the first gets the bare
\* base name and the second a name starting with base + "_gl" + its id.
C9_SecondGetsIdSuffix ==
    \A i, j \in 1..Len(plan) :
        (/\ i < j
         /\ projects[i].path_with_namespace = projects[j].path_with_namespace
         /\ BaseName(projects[i]) \notin repos
         /\ \A k \in 1..(i - 1) : plan[k].name # BaseName(projects[i]))
        => /\ plan[i].name = BaseName(projects[i])
           /\ "id" \in DOMAIN projects[j] =>
                  StartsWith(plan[j].name,
                             BaseName(projects[j]) \o Str_gl \o IntToStr(projects[j].id))

\* The batch of the test: ex/repo with ids 1001 and 1002 gives repo and
\* repo_gl1002.
C9_Witness ==
    /\ PlanReturned
    /\ projects = <<Project1001, Project1002>>
    /\ plan[1].name = Name_repo
    /\ plan[2].name = Name_repo_gl1002

\* The names planned before the k-th project.
UsedBefore(k) == {plan[j].name : j \in 1..(k - 1)}

\* A name is free for the k-th project: not planned before it and, unless
\* force_reimport is set, not existing at the destination.
Free(name, k) == name \notin UsedBefore(k) /\ (cfg.force_reimport \/ name \notin repos)

\* The fixed sequence of candidates of a project, from 0 on: base,
\* base+suffix, base+suffix+"_2", base+suffix+"_3", ...
SequenceCandidate(project, n) ==
    IF n = 0 THEN BaseName(project)
    ELSE IF n = 1 THEN BaseName(project) \o IdSuffix(project)
    ELSE BaseName(project) \o IdSuffix(project) \o <<"_">> \o IntToStr(n)

\* As many candidates as a project of a drawn list can be refused.
CandidateRange == 0..(MaxProjects + Cardinality(DestPool) + 1)

\* C25: the name of every project of the plan is the first free candidate of
\* its sequence base, base+suffix, base+suffix_2, base+suffix_3, ..., where
\* the suffix is "_gl" + id, or "_dup" without an id: every candidate before
\* it in the sequence is used or (without force_reimport) exists, and the
\* number appended is the position in the sequence, from 2 on.
C25_FirstFreeCandidate ==
    \A k \in 1..Len(plan) :
        \E n \in CandidateRange :
            /\ plan[k].name = SequenceCandidate(projects[k], n)
            /\ Free(plan[k].name, k)
            /\ \A m \in 0..(n - 1) : ~Free(SequenceCandidate(projects[k], m), k)

\* Three times ex/repo with id 1002, "repo_gl1002" existing: the second is
\* named repo_gl1002_2 and the third repo_gl1002_3.
C25_Witness ==
    /\ PlanReturned
    /\ ~cfg.force_reimport
    /\ projects = <<Project1002, Project1002, Project1002>>
    /\ repos = {Name_repo_gl1002}
    /\ plan[1].name = Name_repo
    /\ plan[2].name = Name_repo_gl1002_2
    /\ plan[3].name = SequenceCandidate(Project1002, 3)
    /\ plan[3].name = Name_repo_gl1002 \o <<"_", "3">>

\* As many candidates as can be refused to the k-th project: the names
\* planned before it and the repositories of the destination.
RefusalBound(k) == Cardinality(UsedBefore(k)) + Cardinality(repos)

\* C39: planning ends.  The candidates of a project being pairwise different,
\* the loop leaves with a candidate after at most as many refusals as there
\* are names planned before and repositories at the destination, and with
\* at most one existence query for each candidate; every step of the planning
\* that does not end with an exception appends one entry to the plan, which
\* never gets longer than the list of projects.
C39_PlanningTerminates ==
    /\ [](Len(plan) <= Len(projects))
    /\ [][(pc = "plan" /\ pc' = "plan") => Len(plan') = Len(plan) + 1]_vars
    /\ [](\A k \in 1..Len(plan) :
              \E n \in 0..RefusalBound(k) : plan[k].name = SequenceCandidate(projects[k], n))
    /\ [][Len(PlatformCalls(calls')) - Len(PlatformCalls(calls))
              <= RefusalBound(Len(plan) + 1) + 1]_vars

\* Three projects and the plan returned, the third after as many refusals
\* as the bound allows: two names planned before it and three repositories.
C39_Witness ==
    /\ PlanReturned
    /\ Len(plan) = 3
    /\ ~cfg.force_reimport
    /\ Cardinality(repos) = 3
    /\ plan[3].name = SequenceCandidate(projects[3], RefusalBound(3))

\* C37: every name of the plan passes validate_repo_name, the validation at
\* the start of start_import, and comes back from it unchanged.
C37_PlannedNamesValidate ==
    \A i \in DOMAIN plan :
       validate_repo_name(plan[i].name) = [ok |-> TRUE, name |-> plan[i].name]

\* C26: planning is a fold from left to right: a step of the planning
\* appends one entry to the plan, for the next project of the list, adds its
\* name to used and changes no entry planned before; and the plan of the
\* first k projects is what _plan_names returns for those k projects alone,
\* whatever projects follow them in the list.
C26_PlanIsLeftFold ==
    /\ [][plan' # plan =>
              /\ Len(plan') = Len(plan) + 1
              /\ SubSeq(plan', 1, Len(plan)) = plan
              /\ plan'[Len(plan')].project = projects[Len(plan')]
              /\ used' = used \cup {plan'[Len(plan')].name}
              /\ projects' = projects]_vars
    /\ [][used' # used => plan' # plan]_vars
    /\ [](\A k \in 0..Len(plan) :
              SubSeq(plan, 1, k) = PlanNames(SubSeq(projects, 1, k), {}, <<>>, <<>>))

\* The first two names of the list [ex/repo 1001, ex/repo 1002, Ex/a-b] are
\* those of the list [ex/repo 1001, ex/repo 1002], and the third project adds
\* its own.
C26_Witness ==
    /\ PlanReturned
    /\ projects = <<Project1001, Project1002, ProjectDashAB>>
    /\ repos = {}
    /\ SubSeq(plan, 1, 2) = PlanNames(<<Project1001, Project1002>>, {}, <<>>, <<>>)
    /\ plan[2].name = Name_repo_gl1002
    /\ plan[3].name = Name_a_b

-----------------------------------------------------------------------------
(* list_projects on drawn namespaces                                       *)

MaxSubgroups == 3

Path_old == <<"e", "x", "/", "o", "l", "d">>
Path_a_c == <<"e", "x", "/", "a", "/", "c">>
Path_a_c_d == <<"e", "x", "/", "a", "/", "c", "/", "d">>
Path_a_c_old == <<"e", "x", "/", "a", "/", "c", "/", "o", "l", "d">>
Path_x == <<"e", "x", "/", "x">>

ProjectArchived == [path_with_namespace |-> Path_old, id |-> 3, archived |-> TRUE]
ProjectACD == [path_with_namespace |-> Path_a_c_d, id |-> 9, archived |-> FALSE]
ProjectACOld == [path_with_namespace |-> Path_a_c_old, id |-> 10, archived |-> TRUE]

\* A nested subgroup, and a listing entry without an id.
SubgroupAC == [id |-> 43, full_path |-> Path_a_c]
SubgroupNoId == [full_path |-> Path_x]

SubgroupIds == {42, 43}

ListGroupProjects == (42 :> <<ProjectAB>>) @@ (43 :> <<ProjectACD, ProjectACOld>>)

ListGitLabs ==
    {[root_projects |-> rp, subgroups |-> sg, group_projects |-> ListGroupProjects] :
        rp \in StringsUpTo({Project1001, ProjectArchived}, MaxRootProjects),
        sg \in StringsUpTo({SubgroupA, SubgroupAC, SubgroupNoId}, MaxSubgroups)}
    \cup {[root_projects |-> <<Project1001>>, group_projects |-> ListGroupProjects]}

ListConfigs ==
    {[c EXCEPT !.exclude = e, !.include_archived = a] :
        c \in PlanConfigs, e \in {<<>>, <<"c">>, <<"o", "l", "d">>}, a \in BOOLEAN}

\* run() has connected to both platforms and calls list_projects.
InitList ==
    /\ cfg \in ListConfigs
    /\ gitlab \in ListGitLabs
    /\ repos = {}
    /\ pc = "list"
    /\ RunLocalsInit
    /\ NamesIdle
    /\ LimiterIdle

NextList == ListRoot \/ ListVisit \/ ListReturn

SpecList == InitList /\ [][NextList]_vars

\* The positions of projects holding a project of the subgroup id.
FromSubgroup(id) ==
    {k \in DOMAIN projects :
        \E m \in DOMAIN gitlab.group_projects[id] : projects[k] = gitlab.group_projects[id][m]}

\* C7: each subgroup id is fetched at most once and its projects are listed
\* at most once, however often the id occurs in the listing of subgroups; a
\* fetched id is in visited; and the result holds each project of a subgroup
\* no more often than one listing of that subgroup gives it.
C7_SubgroupVisitedOnce ==
    \A id \in SubgroupIds :
        /\ CallsOf("gl.subgroup.get", id) <= 1
        /\ CallsOf("gl.subgroup.projects", id) <= 1
        /\ CallsOf("gl.subgroup.get", id) = 1 => id \in visited
        /\ Cardinality(FromSubgroup(id))
               <= Len(SelectSeq(gitlab.group_projects[id], KeepProject))

\* The listing <<42, 43, 42>> was gone through and 42 was fetched once.
C7_Witness ==
    /\ pc = "list_subgroups"
    /\ to_visit = <<>>
    /\ "subgroups" \in DOMAIN gitlab
    /\ gitlab.subgroups = <<SubgroupA, SubgroupAC, SubgroupA>>
    /\ CallsOf("gl.subgroup.get", 42) = 1
    /\ CallsOf("gl.subgroup.get", 43) = 1
    /\ Cardinality(FromSubgroup(42)) = 1

\* The projects the namespace holds directly, and those of its subgroups.
RootProjects == Range(gitlab.root_projects)
SubgroupProjects == UNION {Range(gitlab.group_projects[id]) : id \in SubgroupIds}

\* The subgroups as listed, or none when the root group has no manager of
\* subgroups.
ListedSubgroups == IF "subgroups" \in DOMAIN gitlab THEN gitlab.subgroups ELSE <<>>

\* The namespace has neither projects nor subgroups.
EmptyNamespace == gitlab.root_projects = <<>> /\ ListedSubgroups = <<>>

IsArchived(project) == "archived" \in DOMAIN project /\ project.archived

\* C21: in the list list_projects builds and returns, the direct projects of
\* the root come before the projects of the subgroups, in the order of the
\* root's listing; no project is archived unless include_archived, none has
\* a path containing the exclude pattern, and none comes from a subgroup
\* whose full path contains the pattern; an empty namespace gives the empty
\* list and no exit code.
C21_RootFirstAndFiltered ==
    /\ \A i, j \in DOMAIN projects :
           (projects[i] \in RootProjects /\ projects[j] \in SubgroupProjects) => i < j
    /\ pc \in {"list_subgroups", "plan"}
           => /\ Len(projects) >= Len(SelectSeq(gitlab.root_projects, KeepProject))
              /\ SubSeq(projects, 1, Len(SelectSeq(gitlab.root_projects, KeepProject)))
                     = SelectSeq(gitlab.root_projects, KeepProject)
    /\ \A k \in DOMAIN projects :
           /\ projects[k] \in RootProjects \cup SubgroupProjects
           /\ ~cfg.include_archived => ~IsArchived(projects[k])
           /\ cfg.exclude # <<>> => ~Contains(projects[k].path_with_namespace, cfg.exclude)
    /\ \A m \in DOMAIN ListedSubgroups :
           LET subgroup == ListedSubgroups[m]
           IN  ("id" \in DOMAIN subgroup /\ cfg.exclude # <<>>
                   /\ Contains(subgroup.full_path, cfg.exclude))
                  => /\ FromSubgroup(subgroup.id) = {}
                     /\ CallsOf("gl.subgroup.projects", subgroup.id) = 0
    /\ (EmptyNamespace /\ pc \in {"list_subgroups", "plan"})
           => projects = <<>> /\ result = NoResult

\* Archived projects are left out at both levels: of the root's two projects
\* and the three of the subgroups 42 and 43, the list returned holds the
\* three that are not archived, the root's first.
C21_Witness ==
    /\ pc = "plan"
    /\ ~cfg.include_archived
    /\ cfg.exclude = <<>>
    /\ gitlab.root_projects = <<Project1001, ProjectArchived>>
    /\ ListedSubgroups = <<SubgroupA, SubgroupAC>>
    /\ projects = <<Project1001, ProjectAB, ProjectACD>>

-----------------------------------------------------------------------------
(* The name functions applied to drawn inputs                              *)

MaxStrLen == 4
MaxPathLen == 5

SanAlphabet == {"a", "_", "-", ".", "/", " "}
PathAlphabet == {"e", "E", "a", "-", ".", "/"}
MapRoots == {<<"e">>}
MapPrefixes == {<<>>, <<"p">>}
MapSeps == {<<"-">>, <<"_">>}

\* No run is in progress.
RunIdle ==
    /\ cfg = CHOOSE c \in RunConfigs : TRUE
    /\ gitlab = CHOOSE g \in RunGitLabs : TRUE
    /\ repos = {}
    /\ pc = "idle"
    /\ RunLocalsInit

InitNames ==
    /\ RunIdle
    /\ UrlIdle
    /\ HelperIdle
    /\ LimiterIdle
    /\ nmOut = <<>>
    /\ nmTwice = <<>>
    /\ nmMapped = <<>>
    /\ \/ /\ nmPc = "san"
          /\ nmIn \in StringsUpTo(SanAlphabet, MaxStrLen)
          /\ nmArgs = NoArgs
       \/ /\ nmPc = "map"
          /\ nmIn = <<>>
          /\ nmArgs \in [path : StringsUpTo(PathAlphabet, MaxPathLen), root : MapRoots,
                         prefix : MapPrefixes, sep : MapSeps]

Sanitize ==
    /\ nmPc = "san"
    /\ nmOut' = sanitize_repo_name(nmIn)
    /\ nmPc' = "san1"
    /\ UNCHANGED <<nmIn, nmTwice, nmArgs, nmMapped, urlVars, helperVars, runVars, limiterVars>>

SanitizeAgain ==
    /\ nmPc = "san1"
    /\ nmTwice' = sanitize_repo_name(nmOut)
    /\ nmPc' = "san2"
    /\ UNCHANGED <<nmIn, nmOut, nmArgs, nmMapped, urlVars, helperVars, runVars, limiterVars>>

MapName ==
    /\ nmPc = "map"
    /\ nmMapped' = map_gitlab_to_github_name(nmArgs.path, nmArgs.root, nmArgs.prefix, nmArgs.sep)
    /\ nmPc' = "mapped"
    /\ UNCHANGED <<nmIn, nmOut, nmTwice, nmArgs, urlVars, helperVars, runVars, limiterVars>>

NextNames == Sanitize \/ SanitizeAgain \/ MapName

SpecNames == InitNames /\ [][NextNames]_vars

-----------------------------------------------------------------------------
(* Properties of the name functions                                        *)

\* C6: sanitize_repo_name is idempotent: sanitising the result of a
\* sanitisation returns it unchanged.
C6_SanitizeIdempotent == nmPc = "san2" => nmTwice = nmOut

\* A sanitisation that changed its input, sanitised again.
C6_Witness == nmPc = "san2" /\ nmOut # nmIn /\ nmOut # DefaultName /\ Len(nmOut) >= 2

\* The case of C8: separator '-', the path's first segment is the namespace
\* up to case, and at least one segment follows; every character of the
\* following segments is in the safe class.
C8_Case ==
    /\ nmPc = "mapped"
    /\ nmArgs.sep = <<"-">>
    /\ LET parts == PathParts(nmArgs.path)
       IN  /\ Len(parts) >= 2
           /\ Lower(parts[1]) = Lower(nmArgs.root)
           /\ \A i \in 2..Len(parts) : \A j \in DOMAIN parts[i] : parts[i][j] \in SafeChars

\* p-s1-s2-...-sk, or s1-s2-...-sk without a prefix.
C8_Joined ==
    LET segs == Join(Tail(PathParts(nmArgs.path)), <<"-">>)
    IN  IF nmArgs.prefix # <<>> THEN nmArgs.prefix \o <<"-">> \o segs ELSE segs

\* No two consecutive dashes, and neither end is a dash or a dot.
TrimmedAndCollapsed(s) ==
    /\ s # <<>>
    /\ s[1] \notin {"-", "."}
    /\ s[Len(s)] \notin {"-", "."}
    /\ \A i \in 1..(Len(s) - 1) : ~(s[i] = "-" /\ s[i + 1] = "-")

\* C8 as stated: in its case the result is the bare join s1-...-sk (with the
\* prefix in front when there is one).
C8_Original == C8_Case => nmMapped = C8_Joined

\* C8: in its case the result is the sanitised join, which is the join itself
\* whenever the join has no two consecutive dashes and neither starts nor ends
\* with a dash or a dot.
C8_MapStripsNamespace ==
    C8_Case => /\ nmMapped = sanitize_repo_name(C8_Joined)
               /\ TrimmedAndCollapsed(C8_Joined) => nmMapped = C8_Joined

\* Namespace "e", path "E/a/a": the result is "a-a".
C8_Witness ==
    /\ C8_Case
    /\ nmArgs.path = <<"E", "/", "a", "/", "a">>
    /\ nmArgs.prefix = <<>>
    /\ nmMapped = <<"a", "-", "a">>

-----------------------------------------------------------------------------
(* Properties of the names _plan_names emits                               *)

\* The safe-character policy of a repository name.
SafeName(s) ==
    /\ Range(s) \subseteq SafeChars
    /\ TrimmedAndCollapsed(s)

\* The characters of s that sanitize_repo_name neither replaces nor strips
\* when nothing else is left.
KeptChars(s) == SelectSeq(s, LAMBDA ch : ch \in SafeChars \ {"-", "."})

\* The candidate of a project before sanitize_repo_name.
Candidate(project) ==
    map_candidate(project.path_with_namespace, cfg.namespace,
                  cfg.name_prefix, cfg.flatten_sep)

\* C19: every name of the plan (returned or under construction) is non-empty,
\* made of characters of [A-Za-z0-9._-], without two consecutive dashes and
\* without a dash or a dot at either end; a project whose candidate keeps no
\* character has the base name "repo", and its planned name starts with it.
C19_SafeNames ==
    /\ \A k \in 1..Len(plan) : SafeName(plan[k].name)
    /\ \A n \in used : SafeName(n)
    /\ \A k \in 1..Len(plan) :
           KeptChars(Candidate(projects[k])) = <<>>
               => /\ BaseName(projects[k]) = DefaultName
                  /\ StartsWith(plan[k].name, DefaultName)

\* The project with nothing to keep comes first and is named "repo"; the
\* project after it has the base name "repo" too and is named "repo_dup".
C19_Witness ==
    /\ PlanReturned
    /\ Len(plan) = 2
    /\ projects[1] = ProjectBlank
    /\ projects[2] = ProjectNoId
    /\ Candidate(projects[1]) = <<" ", ".">>
    /\ plan[1].name = DefaultName
    /\ plan[2].name = DefaultName \o Str_dup

\* The registry reported name as existing: the cached answer for it is True.
ReportedExisting(name) == name \in DOMAIN cache /\ cache[name]

\* C20: without force_reimport no name of the plan is one the registry
\* reported as existing (each was asked about and answered absent); with
\* force_reimport a project whose base name no earlier entry of the plan
\* took is planned under its base name, existing at the destination or not.
C20_ExistingNamesAvoided ==
    /\ ~cfg.force_reimport
           => \A k \in 1..Len(plan) : /\ ~ReportedExisting(plan[k].name)
                                      /\ plan[k].name \in DOMAIN cache
                                      /\ plan[k].name \notin repos
    /\ cfg.force_reimport
           => \A k \in 1..Len(plan) :
                  BaseName(projects[k]) \notin {plan[j].name : j \in 1..(k - 1)}
                      => plan[k].name = BaseName(projects[k])

\* With force_reimport, "repo" and "a-b" exist at the destination and are
\* reported so; the two projects are planned as "repo" and "a-b".
C20_Witness ==
    /\ PlanReturned
    /\ cfg.force_reimport
    /\ projects = <<Project1002, ProjectAB>>
    /\ {Name_repo, Name_a_b} \subseteq repos
    /\ ReportedExisting(Name_repo)
    /\ ReportedExisting(Name_a_b)
    /\ plan[1].name = Name_repo
    /\ plan[2].name = Name_a_b

-----------------------------------------------------------------------------
(* _get_github_url applied to drawn API endpoints                          *)

Str_ghe_host == <<"g", ".", "i", "o">>
Str_ghe_host_port == Str_ghe_host \o <<":", "8">>
Str_proxy_path == <<"/", "g">>
Str_api == <<"/", "a", "p", "i">>

UrlHosts == {Str_api_github_com, Str_ghe_host, Str_ghe_host_port}
UrlPaths == {<<>>, <<"/">>, Str_api_v3, Str_api_v3 \o <<"/">>, Str_proxy_path \o Str_api_v3,
             Str_api}
UrlNames == {Name_repo, Name_a_b}

\* A GitHubTarget built by SyncOrchestrator.__init__ from an https API
\* endpoint, about to compute the URL of a push.
InitUrl ==
    /\ RunIdle
    /\ LimiterIdle
    /\ nmPc = "idle"
    /\ nmIn = <<>>
    /\ nmOut = <<>>
    /\ nmTwice = <<>>
    /\ nmArgs = NoArgs
    /\ nmMapped = <<>>
    /\ HelperIdle
    /\ urlPc = "url"
    /\ \E host \in UrlHosts, path \in UrlPaths :
           api_url = Str_https \o Str_scheme_sep \o host \o path
    /\ push_method \in {"https", "ssh"}
    /\ org_name = Str_org
    /\ repo_name \in UrlNames
    /\ github_url = <<>>

GetGithubUrl ==
    /\ urlPc = "url"
    /\ github_url' = _get_github_url(TargetApiUrl(api_url), push_method, org_name, repo_name)
    /\ urlPc' = "url_done"
    /\ UNCHANGED <<api_url, push_method, org_name, repo_name,
                   nmPc, nmIn, nmOut, nmTwice, nmArgs, nmMapped, helperVars, runVars, limiterVars>>

NextUrl == GetGithubUrl

SpecUrl == InitUrl /\ [][NextUrl]_vars

\* <org>/<name>.git
OrgAndName == org_name \o <<"/">> \o repo_name \o Str_dot_git

\* The host of the API endpoint, and what its path is once the slashes at
\* its end are dropped.
UrlHost == urlparse(api_url).netloc
UrlPath == RStrip(urlparse(api_url).path, {"/"})

\* The endpoint is an enterprise one ending in /api/v3.
EnterpriseEndpoint == UrlHost # Str_api_github_com /\ EndsWith(UrlPath, Str_api_v3)

\* C22 as stated: for an enterprise endpoint ending in /api/v3 the URL of an
\* HTTPS push is <scheme>://<host>/<org>/<name>.git.
C22_Original ==
    (urlPc = "url_done" /\ EnterpriseEndpoint /\ push_method = "https")
        => github_url = urlparse(api_url).scheme \o Str_scheme_sep \o UrlHost
                            \o <<"/">> \o OrgAndName

\* C22: for the API host api.github.com the URL is
\* https://github.com/<org>/<name>.git (HTTPS) or
\* git@github.com:<org>/<name>.git (SSH).  For an enterprise endpoint ending
\* in /api/v3 the SSH URL is git@<host>:<org>/<name>.git, and the HTTPS URL is
\* the endpoint without its /api/v3, followed by /<org>/<name>.git: whatever
\* path precedes /api/v3 in the endpoint stays in the URL, which is
\* <scheme>://<host>/<org>/<name>.git when the path is /api/v3 alone.
C22_PushUrl ==
    urlPc = "url_done" =>
        /\ (UrlHost = Str_api_github_com /\ push_method = "https")
               => github_url = Str_https \o Str_scheme_sep \o Str_github_com
                                   \o <<"/">> \o OrgAndName
        /\ (UrlHost = Str_api_github_com /\ push_method = "ssh")
               => github_url = Str_git_at \o Str_github_com \o <<":">> \o OrgAndName
        /\ (EnterpriseEndpoint /\ push_method = "ssh")
               => github_url = Str_git_at \o UrlHost \o <<":">> \o OrgAndName
        /\ (EnterpriseEndpoint /\ push_method = "https")
               => /\ github_url
                        = urlparse(api_url).scheme \o Str_scheme_sep \o UrlHost
                              \o SubSeq(UrlPath, 1, Len(UrlPath) - Len(Str_api_v3))
                              \o <<"/">> \o OrgAndName
                  /\ UrlPath = Str_api_v3
                        => github_url = urlparse(api_url).scheme \o Str_scheme_sep \o UrlHost
                                            \o <<"/">> \o OrgAndName

\* The endpoint https://g.io/g/api/v3 and an HTTPS push of "repo": the URL is
\* https://g.io/g/org/repo.git.
C22_Witness ==
    /\ urlPc = "url_done"
    /\ push_method = "https"
    /\ api_url = Str_https \o Str_scheme_sep \o Str_ghe_host \o Str_proxy_path \o Str_api_v3
    /\ repo_name = Name_repo
    /\ github_url = Str_https \o Str_scheme_sep \o Str_ghe_host \o Str_proxy_path
                         \o <<"/">> \o Str_org \o <<"/">> \o Name_repo \o Str_dot_git

-----------------------------------------------------------------------------
(* github_target.py: the credential helper of a clone and of a push        *)

\* The credential-helper file a call creates.
HelperOf(step) == step \o "_askpass"

\* Whether the call in progress passes its credentials through a helper.
TokenBased == IF hStep = "clone" THEN clone_token ELSE push_https

\* How _create_askpass_script goes: it returns the path; tempfile.mkstemp
\* raises; os.fdopen raises; a write (or the close that flushes it) raises;
\* os.chmod raises.
CreateOutcomes == {"ok", "mkstemp_error", "fdopen_error", "write_error", "chmod_error"}

\* The file _create_askpass_script leaves behind.  mkstemp has created the
\* file in every outcome but its own failure.  The handler runs
\* os.close(fd) and then os.unlink(path): after os.fdopen raised, fd is open
\* and the file is unlinked; after the with block was entered, fd is closed
\* when the block is left, os.close(fd) raises and os.unlink is not reached.
LeftBehind(outcome) == outcome \in {"ok", "write_error", "chmod_error"}

\* The first statements of the try block of _clone_from_gitlab and of
\* _push_to_github: the helper is created when the transport takes a token.
CreateAskpass ==
    /\ hPc = "create"
    /\ IF TokenBased
       THEN \E outcome \in CreateOutcomes :
               /\ created' = IF outcome = "mkstemp_error" THEN created
                              ELSE created \cup {HelperOf(hStep)}
               /\ helper_files' = IF LeftBehind(outcome)
                                   THEN helper_files \cup {HelperOf(hStep)}
                                   ELSE helper_files
               /\ removals' = IF outcome = "fdopen_error"
                               THEN removals \cup {HelperOf(hStep)} ELSE removals
               /\ askpass_script' = IF outcome = "ok" THEN HelperOf(hStep) ELSE NoScript
               /\ hPc' = IF outcome = "ok" THEN "git" ELSE "finally"
               /\ git_outcome' = IF outcome = "ok" THEN git_outcome ELSE "error"
       ELSE /\ hPc' = "git"
            /\ UNCHANGED <<created, helper_files, removals, askpass_script, git_outcome>>
    /\ UNCHANGED <<hStep, clone_token, push_https,
                   nmPc, nmIn, nmOut, nmTwice, nmArgs, nmMapped, urlVars, runVars, limiterVars>>

\* subprocess.run(["git", ...]): every way it ends leads to the finally block.
RunGit ==
    /\ hPc = "git"
    /\ git_outcome' \in GitOutcomes
    /\ hPc' = "finally"
    /\ UNCHANGED <<hStep, clone_token, push_https, askpass_script, helper_files, created,
                   removals, nmPc, nmIn, nmOut, nmTwice, nmArgs, nmMapped, urlVars, runVars,
                   limiterVars>>

\* finally: self._cleanup_askpass_script(askpass_script).  Nothing is done
\* for None or for a path that does not exist; an OSError of os.remove is
\* logged.  Then the call returns, or the exception goes on.
CleanupAskpass ==
    /\ hPc = "finally"
    /\ IF askpass_script # NoScript /\ askpass_script \in helper_files
       THEN /\ removals' = removals \cup {askpass_script}
            /\ \E outcome \in {"ok", "os_error"} :
                   helper_files' = IF outcome = "ok" THEN helper_files \ {askpass_script}
                                                     ELSE helper_files
       ELSE UNCHANGED <<removals, helper_files>>
    /\ hPc' = IF git_outcome = "ok" THEN "returned" ELSE "raised"
    /\ UNCHANGED <<hStep, clone_token, push_https, askpass_script, created, git_outcome,
                   nmPc, nmIn, nmOut, nmTwice, nmArgs, nmMapped, urlVars, runVars, limiterVars>>

\* start_import: after _clone_from_gitlab has returned, _push_to_github.
StartPush ==
    /\ hPc = "returned"
    /\ hStep = "clone"
    /\ hStep' = "push"
    /\ hPc' = "create"
    /\ askpass_script' = NoScript
    /\ git_outcome' = "none"
    /\ UNCHANGED <<clone_token, push_https, helper_files, created, removals,
                   nmPc, nmIn, nmOut, nmTwice, nmArgs, nmMapped, urlVars, runVars, limiterVars>>

\* start_import calls _clone_from_gitlab, for a source and a push method
\* that take a token or do not.
InitTransfer ==
    /\ RunIdle
    /\ LimiterIdle
    /\ UrlIdle
    /\ nmPc = "idle"
    /\ nmIn = <<>>
    /\ nmOut = <<>>
    /\ nmTwice = <<>>
    /\ nmArgs = NoArgs
    /\ nmMapped = <<>>
    /\ hPc = "create"
    /\ hStep = "clone"
    /\ clone_token \in BOOLEAN
    /\ push_https \in BOOLEAN
    /\ askpass_script = NoScript
    /\ helper_files = {}
    /\ created = {}
    /\ removals = {}
    /\ git_outcome = "none"

NextTransfer == CreateAskpass \/ RunGit \/ CleanupAskpass \/ StartPush

SpecTransfer == InitTransfer /\ [][NextTransfer]_vars

\* The call in progress has returned or raised.
CallLeft == hPc \in {"returned", "raised"}

\* C29: a credential-helper file is created only by a call whose transport
\* takes a token; when the call returns or raises, the removal of every file
\* it created has been attempted and none of them exists any more; and at
\* most one credential-helper file exists at any time.
C29_HelperScopedToCall ==
    /\ HelperOf("clone") \in created => clone_token
    /\ HelperOf("push") \in created => push_https
    /\ CallLeft => /\ HelperOf(hStep) \in created => HelperOf(hStep) \in removals
                   /\ HelperOf(hStep) \notin helper_files
    /\ Cardinality(helper_files) <= 1

-----------------------------------------------------------------------------
(* RateLimiter (utils.py): wait_if_needed called by threads under a clock   *)

\* The clock is in whole seconds.  A thread spends time only in time.sleep
\* and in waiting for the lock: the statements between two such points run
\* without the clock advancing.

\* The length of the limiter's window, in seconds.
Window == 60

MaxRequests == 2
MaxCalls == 3
MaxTime == 90

\* The amounts by which the clock advances between two steps of a thread.
Deltas == {15, 30, 60}

\* A pruning that keeps every request.
KeepOldRequests(reqs, t) == reqs

\* RateLimiter._clean_old_requests: the requests newer than t - 60.
_clean_old_requests(reqs, t) ==
    LET cutoff_time == t - Window
        Newer(req_time) == req_time > cutoff_time
    IN  SelectSeq(reqs, Newer)

\* The calls of wait_if_needed that have started and not returned.
InProgress == {t \in Threads : rlPc[t] # "call"}

\* The body of "with self.lock" entered by thread t: the old requests are
\* dropped as of current_time; when the window is full and the wait is
\* positive the thread sleeps, holding the lock; otherwise current_time is
\* recorded, the lock is released and the call returns.
WithLock(t, cur) ==
    LET cleaned == _clean_old_requests(requests, cur)
        full == Len(cleaned) >= max_requests
        wait_time == Window - (cur - cleaned[1])
    IN  IF full /\ wait_time > 0
          THEN /\ requests' = cleaned
               /\ lock' = t
               /\ wake' = [wake EXCEPT ![t] = now + wait_time]
               /\ rlPc' = [rlPc EXCEPT ![t] = "sleep"]
               /\ UNCHANGED admitted
          ELSE /\ requests' = Append(cleaned, cur)
               /\ lock' = NoThread
               /\ admitted' = Append(admitted, now)
               /\ rlPc' = [rlPc EXCEPT ![t] = "call"]
               /\ UNCHANGED wake

\* wait_if_needed is called: current_time = time.time() is read before the
\* lock is asked for, so other threads and the clock may move in between.
WaitIfNeeded(t) ==
    /\ rlPc[t] = "call"
    /\ Len(admitted) + Cardinality(InProgress) < MaxCalls
    /\ current_time' = [current_time EXCEPT ![t] = now]
    /\ rlPc' = [rlPc EXCEPT ![t] = "lock"]
    /\ UNCHANGED <<max_requests, requests, lock, wake, admitted, now, nameVars, runVars>>

\* "with self.lock": a thread takes the lock when it is free.
Acquire(t) ==
    /\ rlPc[t] = "lock"
    /\ lock = NoThread
    /\ WithLock(t, current_time[t])
    /\ UNCHANGED <<max_requests, now, current_time, nameVars, runVars>>

\* time.sleep(wait_time) returns, no earlier than asked; the old requests are
\* dropped again, as of the clock read after the sleep; current_time is
\* recorded, the lock is released and the call returns.
WakeUp(t) ==
    /\ rlPc[t] = "sleep"
    /\ now' = IF now < wake[t] THEN wake[t] ELSE now
    /\ requests' = Append(_clean_old_requests(requests, now'), current_time[t])
    /\ lock' = NoThread
    /\ admitted' = Append(admitted, now')
    /\ rlPc' = [rlPc EXCEPT ![t] = "call"]
    /\ UNCHANGED <<max_requests, current_time, wake, nameVars, runVars>>

\* The clock advances.
Tick ==
    /\ \E d \in Deltas : /\ now + d <= MaxTime
                          /\ now' = now + d
    /\ UNCHANGED <<max_requests, requests, lock, rlPc, current_time, wake, admitted,
                   nameVars, runVars>>

\* RateLimiter(max_requests_per_minute): a limiter as constructed, and
\* threads about to call wait_if_needed.
InitLimiter ==
    /\ RunIdle
    /\ NamesIdle
    /\ max_requests \in 1..MaxRequests
    /\ requests = <<>>
    /\ lock = NoThread
    /\ now = 0
    /\ rlPc = [t \in Threads |-> "call"]
    /\ current_time = [t \in Threads |-> 0]
    /\ wake = [t \in Threads |-> 0]
    /\ admitted = <<>>

NextLimiter ==
    \/ \E t \in Threads : WaitIfNeeded(t)
    \/ \E t \in Threads : Acquire(t)
    \/ \E t \in Threads : WakeUp(t)
    \/ Tick

SpecLimiter == InitLimiter /\ [][NextLimiter]_vars

-----------------------------------------------------------------------------
(* Properties of the RateLimiter                                            *)

\* The calls admitted in the 60 seconds that end at time t.
AdmittedInWindow(t) ==
    {k \in DOMAIN admitted : admitted[k] > t - Window /\ admitted[k] <= t}

\* C2: for a limiter configured with maximum N, whatever the calls and the
\* advancement of the clock, the number of calls admitted within any trailing
\* 60-second window of real time never exceeds N.
C2_AdmittedWithinLimit ==
    \A k \in DOMAIN admitted : Cardinality(AdmittedInWindow(admitted[k])) <= max_requests

\* The call of thread t that slept returns in this step.
ReturnsAfterSleep(t) == rlPc[t] = "sleep" /\ rlPc'[t] = "call"

\* The call of thread t returns in this step, having slept or not.
Returns(t) == rlPc[t] \in {"lock", "sleep"} /\ rlPc'[t] = "call"

\* The timestamp that the returning call put into the window.
Recorded == requests'[Len(requests')]

\* C31: a call that had to block is recorded after the sleep and the second
\* pruning, with a timestamp that is not earlier than the time at which
\* wait_if_needed returns, so that the entry stays in the window for 60
\* seconds after the admission.
C31_RecordedAtAdmission ==
    [][\A t \in Threads :
          ReturnsAfterSleep(t) => /\ requests' = Append(_clean_old_requests(requests, now'), Recorded)
                                  /\ Recorded >= now']_vars

\* The window is in non-decreasing order, its first entry the oldest.
Ordered(reqs) == \A i, j \in DOMAIN reqs : i <= j => reqs[i] <= reqs[j]

\* The oldest timestamp of a window that is not empty.
Oldest(reqs) == CHOOSE r \in {reqs[i] : i \in DOMAIN reqs} : \A i \in DOMAIN reqs : r <= reqs[i]

\* Thread t, holding the lock, starts to sleep in this step.
Blocks(t) == rlPc[t] = "lock" /\ rlPc'[t] = "sleep"

\* C32: with several threads calling wait_if_needed, one thread at most is
\* inside the lock, every call that returns adds exactly one entry to
\* the pruned window, the window stays in non-decreasing order, and a caller
\* that blocks sleeps until 60 seconds after the oldest timestamp of the window.
C32_SerializedAndOrdered ==
    /\ [](Cardinality({t \in Threads : rlPc[t] = "sleep"}) <= 1)
    /\ [](\A t \in Threads : rlPc[t] = "sleep" => lock = t)
    /\ [][\A t \in Threads :
              Returns(t) => \E cut \in {current_time[t], now'} :
                               requests' = Append(_clean_old_requests(requests, cut), current_time[t])]_vars
    /\ [](Ordered(requests))
    /\ [][\A t \in Threads :
              Blocks(t) => wake'[t] = now + Window - (current_time[t] - Oldest(requests'))]_vars

\* The entries of a window but the last.
Front(reqs) == SubSeq(reqs, 1, Len(reqs) - 1)

\* Every entry of the window is less than 60 seconds old at time t.
AllNewer(reqs, t) == \A i \in DOMAIN reqs : reqs[i] > t - Window

\* C33: the window never holds more than max_requests timestamps, in
\* particular after a call has returned; the window on which a caller is
\* admitted or made to wait holds no timestamp that is 60 seconds old or
\* older at the time used: current_time under the lock, the clock read
\* after the sleep for a caller that slept.
C33_WindowBounded ==
    /\ [](Len(requests) <= max_requests)
    /\ [][\A t \in Threads :
              /\ Blocks(t) => AllNewer(requests', current_time[t])
              /\ (rlPc[t] = "lock" /\ rlPc'[t] = "call")
                     => AllNewer(Front(requests'), current_time[t])
              /\ ReturnsAfterSleep(t) => AllNewer(Front(requests'), now')]_vars

\* A call that slept has returned into a window that is full, some of the
\* entries it found having been pruned.
C33_Witness ==
    /\ Len(admitted) = 3
    /\ lock = NoThread
    /\ Len(requests) = max_requests
    /\ admitted[3] >= Window
    /\ requests[Len(requests)] < admitted[3]

====
